---- MODULE Spec2Model ----
(***************************************************************************)
(* WowSQL TypeScript SDK: the QueryBuilder accumulator, its wire compiler  *)
(* (QueryBuilder.get) and the terminal calls get / execute / first.        *)
(*                                                                         *)
(* JavaScript values are tagged records.  A string is a sequence of        *)
(* symbols: the separators "," "." " " are symbols of their own and every  *)
(* other symbol stands for a run of characters holding no separator, so    *)
(* that split(','), trim(), join(',') and template literals are computed   *)
(* on the text and not assumed.                                            *)
(***************************************************************************)
EXTENDS Integers, Sequences, FiniteSets, Bags, TLC

\* ------------------------------------------------------------------------
\* JavaScript values
\* ------------------------------------------------------------------------
UNDEF == [t |-> "undefined"]

NULL == [t |-> "null"]

Str(s) == [t |-> "string", v |-> s]

Num(n) == [t |-> "number", v |-> n]

Arr(xs) == [t |-> "array", v |-> xs]

Obj(f) == [t |-> "object", v |-> f]

Bool(b) == [t |-> "boolean", v |-> b]

\* a string that is one separator-free run of characters
Word(w) == Str(<<w>>)

IsArray(x) == x.t = "array"

IsString(x) == x.t = "string"

\* JavaScript truthiness, as used by `if (x)`, `!x`, `a || b`
Truthy(x) ==
    CASE x.t = "undefined" -> FALSE
      [] x.t = "null" -> FALSE
      [] x.t = "string" -> x.v # <<>>
      [] x.t = "number" -> x.v # 0
      [] x.t = "boolean" -> x.v
      [] OTHER -> TRUE

\* a || b
OrElse(a, b) == IF Truthy(a) THEN a ELSE b

\* String.prototype.split(sep) on the symbols of a string
RECURSIVE split(_, _)
split(s, sep) ==
    IF \E i \in 1..Len(s) : s[i] = sep
    THEN LET i == CHOOSE k \in 1..Len(s) :
                      s[k] = sep /\ \A j \in 1..(k - 1) : s[j] # sep
         IN  <<SubSeq(s, 1, i - 1)>> \o split(SubSeq(s, i + 1, Len(s)), sep)
    ELSE <<s>>

\* String.prototype.trim()
RECURSIVE trim(_)
trim(s) ==
    IF s # <<>> /\ Head(s) = " " THEN trim(Tail(s))
    ELSE IF s # <<>> /\ s[Len(s)] = " " THEN trim(SubSeq(s, 1, Len(s) - 1))
    ELSE s

\* the symbols of xs[1] sep xs[2] sep ... (xs a sequence of symbol sequences)
RECURSIVE join(_, _)
join(xs, sep) ==
    IF xs = <<>> THEN <<>>
    ELSE IF Len(xs) = 1 THEN xs[1]
    ELSE xs[1] \o <<sep>> \o join(Tail(xs), sep)

\* String(x), the conversion a template literal `${x}` and Array.join apply
RECURSIVE ToStr(_)
ToStr(x) ==
    CASE x.t = "string" -> x.v
      [] x.t = "number" -> <<ToString(x.v)>>
      [] x.t = "null" -> <<"null">>
      [] x.t = "undefined" -> <<"undefined">>
      [] x.t = "boolean" -> <<IF x.v THEN "true" ELSE "false">>
      [] x.t = "array" ->
            join([i \in 1..Len(x.v) |->
                     IF x.v[i].t \in {"null", "undefined"} THEN <<>>
                     ELSE ToStr(x.v[i])], ",")
      [] OTHER -> <<"[object Object]">>

\* object property write / read (a missing property reads undefined)
Set(b, k, x) == [y \in DOMAIN b \cup {k} |-> IF y = k THEN x ELSE b[y]]

Has(b, k) == k \in DOMAIN b

Prop(b, k) == IF k \in DOMAIN b THEN b[k] ELSE UNDEF

\* ------------------------------------------------------------------------
\* QueryOptions: the accumulator state of one QueryBuilder
\* ------------------------------------------------------------------------
Keys == {"select", "filter", "group_by", "having", "order", "orderDirection",
         "limit", "offset"}

\* `private options: QueryOptions = {}`: every property reads undefined
EmptyOptions == [k \in Keys |-> UNDEF]

\* faulty variant of Merge: what the accumulator holds wins
Merge_AccumulatorWins(o, ov) ==
    [k \in Keys |-> IF o[k] # UNDEF \/ k \notin DOMAIN ov THEN o[k] ELSE ov[k]]

\* { ...this.options, ...additionalOptions }
Merge(o, ov) == [k \in Keys |-> IF k \in DOMAIN ov THEN ov[k] ELSE o[k]]

FilterExpression(column, operator, value, logical_op) ==
    Obj([column |-> column, operator |-> operator, value |-> value,
         logical_op |-> logical_op])

HavingFilter(column, operator, value) ==
    Obj([column |-> column, operator |-> operator, value |-> value])

OrderByItem(column, direction) ==
    Obj([column |-> column, direction |-> direction])

\* QueryBuilder.select(...columns): columns is the rest-argument array
Select(o, columns) ==
    IF Len(columns) = 1 /\ IsArray(columns[1])
    THEN [o EXCEPT !.select = columns[1]]
    ELSE IF Len(columns) = 1 /\ IsString(columns[1])
    THEN [o EXCEPT !.select = columns[1]]
    ELSE [o EXCEPT !.select = Arr(columns)]

\* QueryBuilder.filter(column, operator, value, logical_op = 'AND')
Filter(o, column, operator, value, logical_op) ==
    LET lop == IF logical_op = UNDEF THEN Word("AND") ELSE logical_op
        o1 == IF ~Truthy(o.filter) THEN [o EXCEPT !.filter = Arr(<<>>)] ELSE o
        f == FilterExpression(column, operator, value, lop)
    IN  IF IsArray(o1.filter)
        THEN [o1 EXCEPT !.filter = Arr(Append(o1.filter.v, f))]
        ELSE [o1 EXCEPT !.filter = Arr(<<o1.filter, f>>)]

\* QueryBuilder.groupBy(columns)
GroupBy(o, columns) == [o EXCEPT !.group_by = columns]

\* faulty variant of Having: the new clause replaces the list
Having_Newest(o, column, operator, value) ==
    [o EXCEPT !.having = Arr(<<HavingFilter(column, operator, value)>>)]

\* QueryBuilder.having(column, operator, value)
Having(o, column, operator, value) ==
    LET o1 == IF ~Truthy(o.having) THEN [o EXCEPT !.having = Arr(<<>>)] ELSE o
        h == HavingFilter(column, operator, value)
    IN  IF IsArray(o1.having)
        THEN [o1 EXCEPT !.having = Arr(Append(o1.having.v, h))]
        ELSE [o1 EXCEPT !.having = Arr(<<o1.having, h>>)]

\* QueryBuilder.orderBy(column, direction?)
OrderBy(o, column, direction) ==
    IF IsString(column)
    THEN IF Truthy(direction)
         THEN [o EXCEPT !.order = column, !.orderDirection = direction]
         ELSE [o EXCEPT !.order = column]
    ELSE [o EXCEPT !.order = column]

\* QueryBuilder.order(column, direction = 'asc')
Order(o, column, direction) ==
    OrderBy(o, column, IF direction = UNDEF THEN Word("asc") ELSE direction)

\* QueryBuilder.limit(limit)
Limit(o, n) == [o EXCEPT !.limit = n]

\* QueryBuilder.offset(offset)
Offset(o, n) == [o EXCEPT !.offset = n]

\* QueryBuilder.eq / neq / gt / gte / lt / lte / like (column, value):
\* `this.filter(column, '<operator>', value)`
Compare(o, operator, column, value) ==
    Filter(o, column, Word(operator), value, UNDEF)

\* QueryBuilder.isNull(column)
IsNull(o, column) == Filter(o, column, Word("is"), NULL, UNDEF)

\* QueryBuilder.isNotNull(column)
IsNotNull(o, column) == Filter(o, column, Word("is_not"), NULL, UNDEF)

\* QueryBuilder.in(column, values)
In(o, column, values) == Filter(o, column, Word("in"), values, UNDEF)

\* QueryBuilder.notIn(column, values)
NotIn(o, column, values) == Filter(o, column, Word("not_in"), values, UNDEF)

\* faulty variant of Between: the bounds change places
Between_Swapped(o, column, minValue, maxValue) ==
    Filter(o, column, Word("between"), Arr(<<maxValue, minValue>>), UNDEF)

\* QueryBuilder.between(column, minValue, maxValue)
Between(o, column, minValue, maxValue) ==
    Filter(o, column, Word("between"), Arr(<<minValue, maxValue>>), UNDEF)

\* QueryBuilder.notBetween(column, minValue, maxValue)
NotBetween(o, column, minValue, maxValue) ==
    Filter(o, column, Word("not_between"), Arr(<<minValue, maxValue>>), UNDEF)

\* QueryBuilder.or(column, operator, value)
Or(o, column, operator, value) == Filter(o, column, operator, value, Word("OR"))

\* ------------------------------------------------------------------------
\* The wire compiler: QueryBuilder.get
\* ------------------------------------------------------------------------
\* the table this QueryBuilder was created for (`private tableName`)
tableName == "users"

\* property read f.k of an array element (undefined on a non-object)
Field(f, k) == IF f.t = "object" THEN Prop(f.v, k) ELSE UNDEF

\* faulty variant of SplitTrim: the parts are not trimmed
SplitTrim_NoTrim(s) ==
    LET parts == split(s, ",")
    IN  Arr([i \in 1..Len(parts) |-> Str(parts[i])])

\* s.split(',').map(s => s.trim())
SplitTrim(s) ==
    LET parts == split(s, ",")
    IN  Arr([i \in 1..Len(parts) |-> Str(trim(parts[i]))])

\* body.select
BodySelect(b, fo) ==
    IF Truthy(fo.select)
    THEN Set(b, "select",
             IF IsArray(fo.select) THEN fo.select
             ELSE IF IsString(fo.select) THEN SplitTrim(fo.select.v)
             ELSE Arr(<<fo.select>>))
    ELSE b

\* body.filters
BodyFilters(b, fo) ==
    IF Truthy(fo.filter)
    THEN Set(b, "filters",
             IF IsArray(fo.filter) THEN fo.filter ELSE Arr(<<fo.filter>>))
    ELSE b

\* body.group_by
BodyGroupBy(b, fo) ==
    IF Truthy(fo.group_by)
    THEN Set(b, "group_by",
             IF IsArray(fo.group_by) THEN fo.group_by
             ELSE IF IsString(fo.group_by) THEN SplitTrim(fo.group_by.v)
             ELSE Arr(<<fo.group_by>>))
    ELSE b

\* body.having
BodyHaving(b, fo) ==
    IF Truthy(fo.having)
    THEN Set(b, "having",
             IF IsArray(fo.having) THEN fo.having ELSE Arr(<<fo.having>>))
    ELSE b

\* faulty variant of BodyOrder: order_direction is sent whenever a direction is set
BodyOrder_DirectionWhenSet(b, fo) ==
    IF Truthy(fo.order)
    THEN IF IsString(fo.order) \/ Truthy(fo.orderDirection)
         THEN Set(Set(b, "order_by", fo.order), "order_direction",
                  OrElse(fo.orderDirection, Word("asc")))
         ELSE Set(b, "order_by", fo.order)
    ELSE b

\* body.order_by, body.order_direction
BodyOrder(b, fo) ==
    IF Truthy(fo.order)
    THEN IF IsString(fo.order)
         THEN Set(Set(b, "order_by", fo.order), "order_direction",
                  OrElse(fo.orderDirection, Word("asc")))
         ELSE Set(b, "order_by", fo.order)
    ELSE b

\* faulty variant of BodyLimitOffset: a zero is taken for not set
BodyLimitOffset_Truthy(b, fo) ==
    LET b1 == IF Truthy(fo.limit) THEN Set(b, "limit", fo.limit) ELSE b
    IN  IF Truthy(fo.offset) THEN Set(b1, "offset", fo.offset) ELSE b1

\* body.limit, body.offset
BodyLimitOffset(b, fo) ==
    LET b1 == IF fo.limit # UNDEF THEN Set(b, "limit", fo.limit) ELSE b
    IN  IF fo.offset # UNDEF THEN Set(b1, "offset", fo.offset) ELSE b1

\* `const body: any = {}` and the assignments that fill it
RequestBody(fo) ==
    BodyLimitOffset(
        BodyOrder(
            BodyHaving(
                BodyGroupBy(
                    BodyFilters(
                        BodySelect(<<>>, fo), fo), fo), fo), fo), fo)

ArrayOperators == {Word("in"), Word("not_in"), Word("between"),
                   Word("not_between")}

\* faulty variant of hasAdvancedFeatures: the operator list misses 'not_between'
hasAdvancedFeatures_ShortList(body) ==
    \/ Truthy(Prop(body, "group_by"))
    \/ Truthy(Prop(body, "having"))
    \/ IsArray(Prop(body, "order_by"))
    \/ /\ Truthy(Prop(body, "filters"))
       /\ \E i \in 1..Len(body.filters.v) :
              Field(body.filters.v[i], "operator")
                  \in {Word("in"), Word("not_in"), Word("between")}

\* const hasAdvancedFeatures = body.group_by || body.having || ...
hasAdvancedFeatures(body) ==
    \/ Truthy(Prop(body, "group_by"))
    \/ Truthy(Prop(body, "having"))
    \/ IsArray(Prop(body, "order_by"))
    \/ /\ Truthy(Prop(body, "filters"))
       /\ \E i \in 1..Len(body.filters.v) :
              Field(body.filters.v[i], "operator") \in ArrayOperators

\* faulty variant of hasArrayValues: `some(f => f.value)`, any truthy value
hasArrayValues_Truthy(body) ==
    \E i \in 1..Len(body.filters.v) : Truthy(Field(body.filters.v[i], "value"))

\* const hasArrayValues = body.filters.some(f => Array.isArray(f.value))
hasArrayValues(body) ==
    \E i \in 1..Len(body.filters.v) : IsArray(Field(body.filters.v[i], "value"))

\* faulty variant of FilterToken: operator and value change places
FilterToken_ValueFirst(f) ==
    ToStr(Field(f, "column")) \o <<".">> \o ToStr(Field(f, "value"))
        \o <<".">> \o ToStr(Field(f, "operator"))

\* `${f.column}.${f.operator}.${f.value}`
FilterToken(f) ==
    ToStr(Field(f, "column")) \o <<".">> \o ToStr(Field(f, "operator"))
        \o <<".">> \o ToStr(Field(f, "value"))

\* params.select
ParamsSelect(p, body) ==
    IF Truthy(Prop(body, "select"))
    THEN Set(p, "select",
             IF IsArray(body.select) THEN Str(ToStr(body.select))
             ELSE body.select)
    ELSE p

\* params.filter
ParamsFilter(p, body) ==
    IF Truthy(Prop(body, "filters")) /\ Len(body.filters.v) > 0
    THEN Set(p, "filter",
             Str(join([i \in 1..Len(body.filters.v) |->
                          FilterToken(body.filters.v[i])], ",")))
    ELSE p

\* params.order, params.order_direction
ParamsOrder(p, body) ==
    IF Truthy(Prop(body, "order_by")) /\ IsString(body.order_by)
    THEN Set(Set(p, "order", body.order_by), "order_direction",
             OrElse(Prop(body, "order_direction"), Word("asc")))
    ELSE p

\* params.limit, params.offset
ParamsLimitOffset(p, body) ==
    LET p1 == IF Prop(body, "limit") # UNDEF
              THEN Set(p, "limit", body.limit) ELSE p
    IN  IF Prop(body, "offset") # UNDEF
        THEN Set(p1, "offset", body.offset) ELSE p1

\* `const params: any = {}` and the assignments that fill it
RequestParams(body) ==
    ParamsLimitOffset(
        ParamsOrder(
            ParamsFilter(
                ParamsSelect(<<>>, body), body), body), body)

\* this.client.post(`/${this.tableName}/query`, body)
Post(body) ==
    [method |-> "POST", url |-> <<"/", tableName, "/query">>, data |-> body]

\* this.client.get(`/${this.tableName}`, { params })
HttpGet(params) ==
    [method |-> "GET", url |-> <<"/", tableName>>, params |-> params]

\* faulty variant of Get: no second look at the filter values
Get_NoFallback(o, additionalOptions) ==
    LET finalOptions == Merge(o, additionalOptions)
        body == RequestBody(finalOptions)
    IN  IF hasAdvancedFeatures(body) THEN Post(body)
        ELSE HttpGet(RequestParams(body))

\* the one request QueryBuilder.get(additionalOptions) issues
Get(o, additionalOptions) ==
    LET finalOptions == Merge(o, additionalOptions)
        body == RequestBody(finalOptions)
    IN  IF hasAdvancedFeatures(body) THEN Post(body)
        ELSE IF /\ Truthy(Prop(body, "filters"))
                /\ Len(body.filters.v) > 0
                /\ hasArrayValues(body)
             THEN Post(body)
        ELSE HttpGet(RequestParams(body))

\* ------------------------------------------------------------------------
\* The transport (axios instance with the error interceptor) and the calls
\* ------------------------------------------------------------------------
\* the error the response interceptor throws
WOWSQLError(message, statusCode, response) ==
    [name |-> "WOWSQLError", message |-> message, statusCode |-> statusCode,
     response |-> response]

\* AxiosError: `response` is undefined when no response was received
\* (timeout, connection refused), else { status, data }
AxiosError(message, response) == [message |-> message, response |-> response]

HttpResponse(status, data) == Obj([status |-> Num(status), data |-> data])

\* faulty variant of ErrorInterceptor: the status and the body are dropped
ErrorInterceptor_MessageOnly(error) ==
    IF Truthy(error.response)
    THEN LET errorData == error.response.v.data
         IN  WOWSQLError(OrElse(OrElse(Field(errorData, "detail"),
                                       Field(errorData, "message")),
                                error.message),
                         UNDEF, UNDEF)
    ELSE WOWSQLError(error.message, UNDEF, UNDEF)

\* the rejection handler of client.interceptors.response
ErrorInterceptor(error) ==
    IF Truthy(error.response)
    THEN LET errorData == error.response.v.data
         IN  WOWSQLError(OrElse(OrElse(Field(errorData, "detail"),
                                       Field(errorData, "message")),
                                error.message),
                         error.response.v.status, errorData)
    ELSE WOWSQLError(error.message, UNDEF, UNDEF)

\* a request that failed with the AxiosError `cause`: the awaited promise
\* rejects with what the interceptor throws
Failed(cause) ==
    [ok |-> FALSE, error |-> ErrorInterceptor(cause), cause |-> cause]

\* QueryResponse<T>: { data, count, total, ... } as the server sent it
QueryResponse(rows) ==
    Obj([data |-> Arr(rows), count |-> Num(Len(rows)), total |-> Num(Len(rows))])

Resolved(data) == [ok |-> TRUE, data |-> data]

Rejected(error) == [ok |-> FALSE, error |-> error]

Returned(value) == [threw |-> FALSE, value |-> value]

Threw(error) == [threw |-> TRUE, error |-> error]

\* `return response.data`; a rejected request throws out of the await
GetResult(resp) == IF resp.ok THEN Returned(resp.data) ELSE Threw(resp.error)

\* faulty variant of OptionsAfterGet: the builder is reset once the query is sent
OptionsAfterGet_Reset(o, additionalOptions) == EmptyOptions

\* this.options after get(additionalOptions): get reads this.options into a
\* fresh object and never assigns to it
OptionsAfterGet(o, additionalOptions) == o

\* faulty variant of FirstOptions: limit 1 is only a default
FirstOptions_DefaultOnly(o) == IF o.limit = UNDEF THEN Limit(o, Num(1)) ELSE o

\* the accumulator first() hands to get(): this.limit(1)
FirstOptions(o) == Limit(o, Num(1))

\* faulty variant of FirstResult: `result.data[0]` without the `|| null`
FirstResult_NoSentinel(resp) ==
    IF resp.ok
    THEN LET rows == resp.data.v.data.v
         IN  Returned(IF Len(rows) >= 1 THEN rows[1] ELSE UNDEF)
    ELSE Threw(resp.error)

\* `result.data[0] || null`
FirstResult(resp) ==
    IF resp.ok
    THEN LET rows == resp.data.v.data.v
         IN  Returned(OrElse(IF Len(rows) >= 1 THEN rows[1] ELSE UNDEF, NULL))
    ELSE Threw(resp.error)

\* Table.getById(id): this.client.get(`/${this.tableName}/${id}`)
GetById(id) ==
    [method |-> "GET", url |-> <<"/", tableName, "/">> \o ToStr(id)]

\* Table.create(data): this.client.post(`/${this.tableName}`, data)
Create(data) ==
    [method |-> "POST", url |-> <<"/", tableName>>, data |-> data]

\* Table.insert(data): `return this.create(data)`
Insert(data) == Create(data)

\* Table.update(id, data): this.client.patch(`/${this.tableName}/${id}`, data)
Update(id, data) ==
    [method |-> "PATCH", url |-> <<"/", tableName, "/">> \o ToStr(id),
     data |-> data]

\* Table.delete(id): this.client.delete(`/${this.tableName}/${id}`)
Delete(id) ==
    [method |-> "DELETE", url |-> <<"/", tableName, "/">> \o ToStr(id)]

\* WowSQLClient.listTables(): this.client.get('/tables')
ListTables == [method |-> "GET", url |-> <<"/tables">>]

\* `return response.data.tables`
ListTablesResult(resp) ==
    IF resp.ok THEN Returned(Field(resp.data, "tables")) ELSE Threw(resp.error)

\* WowSQLClient.getTableSchema(name): this.client.get(`/tables/${name}/schema`)
GetTableSchema(name) ==
    [method |-> "GET", url |-> <<"/tables/">> \o ToStr(name) \o <<"/schema">>]

\* WowSQLClient.query(sql): this.client.post('/query', { sql })
RawQuery(sql) ==
    [method |-> "POST", url |-> <<"/query">>, data |-> [sql |-> sql]]

\* `return response.data.results || response.data`
RawQueryResult(resp) ==
    IF resp.ok
    THEN Returned(OrElse(Field(resp.data, "results"), resp.data))
    ELSE Threw(resp.error)

\* WowSQLClient.health(): this.client.get('/health')
Health == [method |-> "GET", url |-> <<"/health">>]

\* ------------------------------------------------------------------------
\* WowSQLStorage: the quota cache, the quota check and the upload
\* ------------------------------------------------------------------------
StorageError(message, statusCode, response) ==
    [name |-> "StorageError", message |-> message, statusCode |-> statusCode,
     response |-> response]

StorageLimitExceededError(message, statusCode, response) ==
    [name |-> "StorageLimitExceededError", message |-> message,
     statusCode |-> statusCode, response |-> response]

\* the rejection handler of the storage client's response interceptor
StorageInterceptor(error) ==
    IF Truthy(error.response)
    THEN LET errorData == error.response.v.data
             errorMessage == OrElse(OrElse(Field(errorData, "detail"),
                                           Field(errorData, "message")),
                                    error.message)
         IN  IF error.response.v.status = Num(413)
             THEN StorageLimitExceededError(errorMessage,
                                            error.response.v.status, errorData)
             ELSE StorageError(errorMessage, error.response.v.status,
                               errorData)
    ELSE StorageError(error.message, UNDEF, UNDEF)

\* a storage request that failed with the AxiosError `cause`
StorageFailed(cause) ==
    [ok |-> FALSE, error |-> StorageInterceptor(cause), cause |-> cause]

\* `this.autoCheckQuota = config.autoCheckQuota !== false`
AutoCheckQuota(config) == Field(config, "autoCheckQuota") # Bool(FALSE)

\* `new WowSQLStorage(config)`: quotaCache is not set
NewStorage(config) ==
    [config |-> config, autoCheckQuota |-> AutoCheckQuota(config),
     quotaCache |-> UNDEF]

projectSlug == "myproject"

\* this.client.get(`/api/v1/storage/s3/projects/${this.projectSlug}/quota`)
QuotaRequest ==
    [method |-> "GET",
     url |-> <<"/api/v1/storage/s3/projects/", projectSlug, "/quota">>]

\* this.client.post(url, formData, ...) of uploadFile; the folder, when
\* given, goes into the query string
UploadRequest(fileSize, fileName, options) ==
    [method |-> "POST",
     url |-> <<"/api/v1/storage/s3/projects/", projectSlug, "/upload">>
             \o (IF Truthy(Field(options, "folder"))
                 THEN <<"?", "folder=">> \o ToStr(Field(options, "folder"))
                 ELSE <<>>),
     file |-> fileName, size |-> fileSize]

\* this.client.delete(`/api/v1/storage/s3/projects/${slug}/files/${fileKey}`)
DeleteRequest(fileKey) ==
    [method |-> "DELETE",
     url |-> <<"/api/v1/storage/s3/projects/", projectSlug, "/files/">>
             \o ToStr(fileKey)]

\* what a storage call comes to: the quota cache it leaves, the requests it
\* issued with the answers they got, and what the caller gets
StorageResult(quotaCache, requests, answers, outcome) ==
    [quotaCache |-> quotaCache, requests |-> requests, answers |-> answers,
     outcome |-> outcome]

\* faulty variant of GetQuota: a cached snapshot is returned even when a
\* refresh is forced
GetQuota_CacheFirst(quotaCache, forceRefresh, resp) ==
    IF Truthy(quotaCache)
    THEN StorageResult(quotaCache, <<>>, <<>>, Returned(quotaCache))
    ELSE IF resp.ok
    THEN StorageResult(resp.data, <<QuotaRequest>>, <<resp>>,
                       Returned(resp.data))
    ELSE StorageResult(quotaCache, <<QuotaRequest>>, <<resp>>,
                       Threw(resp.error))

\* WowSQLStorage.getQuota(forceRefresh = false), the quota request being
\* answered by resp when it is made
GetQuota(quotaCache, forceRefresh, resp) ==
    LET force == IF forceRefresh = UNDEF THEN Bool(FALSE) ELSE forceRefresh
    IN  IF Truthy(quotaCache) /\ ~Truthy(force)
        THEN StorageResult(quotaCache, <<>>, <<>>, Returned(quotaCache))
        ELSE IF resp.ok
        THEN StorageResult(resp.data, <<QuotaRequest>>, <<resp>>,
                           Returned(resp.data))
        ELSE StorageResult(quotaCache, <<QuotaRequest>>, <<resp>>,
                           Threw(resp.error))

\* 1024 ** 3
GiB == 1024 * 1024 * 1024

\* faulty variant of ExceedsQuota: a file that fills the storage is refused
ExceedsQuota_OrFills(fileSizeBytes, quota) ==
    fileSizeBytes >= Field(quota, "storage_available_gb").v * GiB

\* `fileSizeBytes / (1024 ** 3) > quota.storage_available_gb`, for a quota in
\* whole gigabytes (the division by a power of two is exact)
ExceedsQuota(fileSizeBytes, quota) ==
    fileSizeBytes > Field(quota, "storage_available_gb").v * GiB

\* WowSQLStorage.checkUploadAllowed(fileSizeBytes)
CheckUploadAllowed(quotaCache, fileSizeBytes, resp) ==
    LET q == GetQuota(quotaCache, Bool(TRUE), resp)
    IN  IF q.outcome.threw THEN q
        ELSE StorageResult(q.quotaCache, q.requests, q.answers,
                 Returned(
                     IF ExceedsQuota(fileSizeBytes, q.outcome.value)
                     THEN Obj([allowed |-> Bool(FALSE),
                               message |-> Word("Storage limit exceeded!")])
                     ELSE Obj([allowed |-> Bool(TRUE),
                               message |-> Word("Upload allowed.")])))

\* WowSQLStorage.uploadFile(fileData, fileName, options), the quota request
\* and the upload request being answered by quotaResp and uploadResp when
\* they are made
UploadFile(st, fileSize, fileName, options, quotaResp, uploadResp) ==
    LET given == Field(options, "checkQuota")
        shouldCheck == IF given # UNDEF THEN given ELSE Bool(st.autoCheckQuota)
        check == IF Truthy(shouldCheck)
                 THEN CheckUploadAllowed(st.quotaCache, fileSize, quotaResp)
                 ELSE StorageResult(st.quotaCache, <<>>, <<>>,
                                    Returned(Obj([allowed |-> Bool(TRUE)])))
    IN  IF check.outcome.threw THEN check
        ELSE IF ~Truthy(Field(check.outcome.value, "allowed"))
        THEN StorageResult(check.quotaCache, check.requests, check.answers,
                 Threw(StorageLimitExceededError(
                           Field(check.outcome.value, "message"), Num(413),
                           UNDEF)))
        ELSE LET requests == Append(check.requests,
                                    UploadRequest(fileSize, fileName, options))
                 answers == Append(check.answers, uploadResp)
             IN  IF uploadResp.ok
                 THEN StorageResult(UNDEF, requests, answers,
                                    Returned(uploadResp.data))
                 ELSE StorageResult(check.quotaCache, requests, answers,
                                    Threw(uploadResp.error))

\* faulty variant of DeleteFile: the quota cache survives the deletion
DeleteFile_KeepCache(quotaCache, fileKey, resp) ==
    StorageResult(quotaCache, <<DeleteRequest(fileKey)>>, <<resp>>,
                  IF resp.ok THEN Returned(resp.data) ELSE Threw(resp.error))

\* WowSQLStorage.deleteFile(fileKey)
DeleteFile(quotaCache, fileKey, resp) ==
    IF resp.ok
    THEN StorageResult(UNDEF, <<DeleteRequest(fileKey)>>, <<resp>>,
                       Returned(resp.data))
    ELSE StorageResult(quotaCache, <<DeleteRequest(fileKey)>>, <<resp>>,
                       Threw(resp.error))

\* ------------------------------------------------------------------------
\* ProjectAuthClient: the session tokens and the calls that set them
\* ------------------------------------------------------------------------
\* a ?? b
Nullish(a, b) == IF a.t \in {"null", "undefined"} THEN b ELSE a

\* mapSession(data)
MapSession(data) ==
    Obj([accessToken |-> Field(data, "access_token"),
         refreshToken |-> Field(data, "refresh_token"),
         tokenType |-> Nullish(Field(data, "token_type"), Word("bearer")),
         expiresIn |-> Nullish(Field(data, "expires_in"), Num(0))])

\* mapUser(data)
MapUser(data) ==
    Obj([id |-> Field(data, "id"),
         email |-> Field(data, "email"),
         fullName |-> Nullish(Nullish(Field(data, "full_name"),
                                      Field(data, "fullName")), NULL),
         avatarUrl |-> Nullish(Nullish(Field(data, "avatar_url"),
                                       Field(data, "avatarUrl")), NULL),
         emailVerified |-> Bool(Truthy(Nullish(Field(data, "email_verified"),
                                               Field(data, "emailVerified")))),
         userMetadata |-> Nullish(Nullish(Field(data, "user_metadata"),
                                          Field(data, "userMetadata")),
                                  Obj(<<>>)),
         appMetadata |-> Nullish(Nullish(Field(data, "app_metadata"),
                                         Field(data, "appMetadata")),
                                 Obj(<<>>)),
         createdAt |-> Nullish(Nullish(Field(data, "created_at"),
                                       Field(data, "createdAt")), NULL)])

\* normalizeSignUpPayload(payload)
NormalizeSignUpPayload(payload) ==
    Obj([email |-> Field(payload, "email"),
         password |-> Field(payload, "password"),
         full_name |-> Nullish(Field(payload, "full_name"),
                               Field(payload, "fullName")),
         user_metadata |-> Nullish(Field(payload, "user_metadata"),
                                   Field(payload, "userMetadata"))])

\* `new MemoryAuthTokenStorage()`
MemoryAuthTokenStorage == [accessToken |-> NULL, refreshToken |-> NULL]

\* the ProjectAuthClient constructor: the tokens are read from the storage
\* (config.storage || new MemoryAuthTokenStorage())
NewAuth(config) ==
    LET tokenStorage == IF Truthy(Field(config, "storage"))
                        THEN Field(config, "storage").v
                        ELSE MemoryAuthTokenStorage
    IN  [config |-> config,
         accessToken |-> tokenStorage.accessToken,
         refreshToken |-> tokenStorage.refreshToken,
         storage |-> tokenStorage]

\* ProjectAuthClient.getSession()
GetSession(a) ==
    Obj([accessToken |-> OrElse(a.accessToken, a.storage.accessToken),
         refreshToken |-> OrElse(a.refreshToken, a.storage.refreshToken)])

\* the four assignments setSession, clearSession and persistSession share
StoreTokens(a, accessToken, refreshToken) ==
    [a EXCEPT !.accessToken = accessToken, !.refreshToken = refreshToken,
              !.storage = [accessToken |-> accessToken,
                           refreshToken |-> refreshToken]]

\* faulty variant of SetSession: an omitted refresh token keeps the old one
SetSession_KeepRefresh(a, session) ==
    StoreTokens(a, Field(session, "accessToken"),
                IF Field(session, "refreshToken") = UNDEF THEN a.refreshToken
                ELSE Field(session, "refreshToken"))

\* ProjectAuthClient.setSession(session)
SetSession(a, session) ==
    StoreTokens(a, Field(session, "accessToken"),
                Nullish(Field(session, "refreshToken"), NULL))

\* ProjectAuthClient.clearSession()
ClearSession(a) == StoreTokens(a, NULL, NULL)

\* faulty variant of PersistSession: only the access token is stored
PersistSession_AccessOnly(a, raw) ==
    [a EXCEPT !.accessToken = Field(MapSession(raw), "accessToken"),
              !.storage.accessToken = Field(MapSession(raw), "accessToken")]

\* faulty variant of PersistSession: the token storage is not written
PersistSession_FieldsOnly(a, raw) ==
    [a EXCEPT !.accessToken = Field(MapSession(raw), "accessToken"),
              !.refreshToken = Field(MapSession(raw), "refreshToken")]

\* ProjectAuthClient.persistSession(raw): the client after it (it returns
\* MapSession(raw))
PersistSession(a, raw) ==
    StoreTokens(a, Field(MapSession(raw), "accessToken"),
                Field(MapSession(raw), "refreshToken"))

\* ProjectAuthClient.toWowError(error) for an AxiosError
ToWowError(error) ==
    LET status == Field(error.response, "status")
        data == Field(error.response, "data")
        detail == OrElse(OrElse(Field(data, "detail"), Field(data, "message")),
                         error.message)
    IN  WOWSQLError(OrElse(detail, Word("Request failed")), status, data)

authBaseURL == "https://myproject.wowsql.com/api/auth"

\* the request each method awaits
SignUpRequest(payload) ==
    [method |-> "POST", url |-> <<"/signup">>,
     data |-> NormalizeSignUpPayload(payload)]

SignInRequest(payload) ==
    [method |-> "POST", url |-> <<"/login">>, data |-> payload]

GetUserRequest(token) ==
    [method |-> "GET", url |-> <<"/me">>,
     headers |-> [Authorization |-> <<"Bearer ">> \o ToStr(token)]]

OAuthUrlRequest(provider, redirectUri) ==
    [method |-> "GET", url |-> <<"/oauth/">> \o ToStr(provider),
     params |-> [frontend_redirect_uri |-> Str(trim(redirectUri.v))]]

OAuthCallbackRequest(provider, code, redirectUri) ==
    [method |-> "POST",
     url |-> <<"/oauth/">> \o ToStr(provider) \o <<"/callback">>,
     data |-> Obj([code |-> code, redirect_uri |-> redirectUri])]

ForgotPasswordRequest(email) ==
    [method |-> "POST", url |-> <<"/forgot-password">>,
     data |-> Obj([email |-> email])]

ResetPasswordRequest(token, newPassword) ==
    [method |-> "POST", url |-> <<"/reset-password">>,
     data |-> Obj([token |-> token, new_password |-> newPassword])]

\* faulty variant of GetUserToken: the stored token goes before the argument
GetUserToken_StoredFirst(a, accessToken) ==
    OrElse(OrElse(a.accessToken, a.storage.accessToken), accessToken)

\* getUser: `accessToken || this.accessToken || this.storage.getAccessToken()`
GetUserToken(a, accessToken) ==
    OrElse(OrElse(accessToken, a.accessToken), a.storage.accessToken)

\* what an auth method comes to once its request is answered by resp (an
\* axios response { status, data } or an AxiosError): the client after its
\* continuation has run, and what the caller gets
AuthResult(a, outcome) == [auth |-> a, outcome |-> outcome]

\* signUp and exchangeOAuthCallback after the await
SessionWithUser(a, resp) ==
    IF resp.ok
    THEN AuthResult(PersistSession(a, resp.data),
             Returned(Obj([user |-> IF Truthy(Field(resp.data, "user"))
                                    THEN MapUser(Field(resp.data, "user"))
                                    ELSE UNDEF,
                           session |-> MapSession(resp.data)])))
    ELSE AuthResult(a, Threw(ToWowError(resp.cause)))

\* signIn after the await
SessionOnly(a, resp) ==
    IF resp.ok
    THEN AuthResult(PersistSession(a, resp.data),
                    Returned(Obj([session |-> MapSession(resp.data)])))
    ELSE AuthResult(a, Threw(ToWowError(resp.cause)))

\* getUser after the await
UserResult(a, resp) ==
    IF resp.ok THEN AuthResult(a, Returned(MapUser(resp.data)))
    ELSE AuthResult(a, Threw(ToWowError(resp.cause)))

\* getOAuthAuthorizationUrl after the await
OAuthUrlResult(a, provider, resp) ==
    IF resp.ok
    THEN AuthResult(a, Returned(Obj(
             [authorizationUrl |-> Field(resp.data, "authorization_url"),
              provider |-> Field(resp.data, "provider"),
              redirectUri |->
                  OrElse(OrElse(Field(resp.data, "redirect_uri"),
                                Field(resp.data, "backend_callback_url")),
                         Str(<<>>)),
              backendCallbackUrl |-> Field(resp.data, "backend_callback_url"),
              frontendRedirectUri |->
                  Field(resp.data, "frontend_redirect_uri")])))
    ELSE LET status == Field(resp.cause.response, "status")
             data == Field(resp.cause.response, "data")
         IN  IF status = Num(502)
             THEN AuthResult(a, Threw(WOWSQLError(
                      Str(<<"Bad Gateway (502): The backend server may be down or unreachable. ",
                            "Check if the backend is running and accessible at ",
                            authBaseURL>>), Num(502), data)))
             ELSE IF status = Num(400)
             THEN AuthResult(a, Threw(WOWSQLError(
                      Str(<<"Bad Request (400): ">> \o resp.cause.message.v
                          \o <<". ", "Ensure OAuth provider '">>
                          \o ToStr(provider)
                          \o <<"' is configured and enabled for this project.">>),
                      Num(400), data)))
             ELSE AuthResult(a, Threw(ToWowError(resp.cause)))

\* forgotPassword and resetPassword after the await
MessageResult(a, resp, message) ==
    IF resp.ok
    THEN AuthResult(a, Returned(Obj(
             [success |-> Nullish(Field(resp.data, "success"), Bool(TRUE)),
              message |-> Nullish(Field(resp.data, "message"),
                                  Word(message))])))
    ELSE AuthResult(a, Threw(ToWowError(resp.cause)))

\* the continuation of the awaiting method `op`
Settled(a, op, args, resp) ==
    CASE op \in {"signUp", "exchangeOAuthCallback"} -> SessionWithUser(a, resp)
      [] op = "signIn" -> SessionOnly(a, resp)
      [] op = "getUser" -> UserResult(a, resp)
      [] op = "getOAuthAuthorizationUrl" -> OAuthUrlResult(a, args[1], resp)
      [] op = "forgotPassword" ->
            MessageResult(a, resp,
                "If that email exists, a password reset link has been sent")
      [] op = "resetPassword" ->
            MessageResult(a, resp,
                "Password reset successfully! You can now login with your new password")

\* ------------------------------------------------------------------------
\* WowSQLSchema: one fetch per operation, the status decides the outcome
\* ------------------------------------------------------------------------
\* `new WowSQLSchema(projectUrl, serviceKey)`; a URL is written with its
\* trailing "/" as a symbol of its own, which replace(/\/$/, '') drops
NewSchema(projectUrl, serviceKey) ==
    [baseUrl |-> IF projectUrl # <<>> /\ projectUrl[Len(projectUrl)] = "/"
                 THEN SubSeq(projectUrl, 1, Len(projectUrl) - 1)
                 ELSE projectUrl,
     serviceKey |-> serviceKey]

\* JSON.stringify of an object: a property that is undefined is left out
JSONStringify(x) ==
    [json |-> [k \in {j \in DOMAIN x.v : x.v[j] # UNDEF} |-> x.v[k]]]

\* a plain Error
Error(message) == [name |-> "Error", message |-> message]

\* what response.json() rejects with when the body is not JSON
SyntaxError == [name |-> "SyntaxError", message |-> <<"Unexpected token">>]

\* what fetch rejects with when no response is received
FetchFailed == [name |-> "TypeError", message |-> <<"fetch failed">>]

\* a fetch Response: body is [json |-> TRUE, value |-> v] when the body
\* parses as JSON and [json |-> FALSE] when it does not
Response(status, statusText, body) ==
    [received |-> TRUE, status |-> status,
     ok |-> status >= 200 /\ status <= 299, statusText |-> statusText,
     body |-> body]

\* await response.json()
Json(response) ==
    IF response.body.json THEN Returned(response.body.value)
    ELSE Threw(SyntaxError)

SchemaHeaders(sc, withBody) ==
    IF withBody
    THEN [Authorization |-> <<"Bearer ">> \o sc.serviceKey,
          ContentType |-> <<"application/json">>]
    ELSE [Authorization |-> <<"Bearer ">> \o sc.serviceKey]

CreateTableRequest(sc, o) ==
    [method |-> "POST", url |-> sc.baseUrl \o <<"/api/v2/schema/tables">>,
     headers |-> SchemaHeaders(sc, TRUE),
     body |-> JSONStringify(Obj([table_name |-> Field(o, "tableName"),
                                 columns |-> Field(o, "columns"),
                                 primary_key |-> Field(o, "primaryKey"),
                                 indexes |-> Field(o, "indexes")]))]

AlterTableRequest(sc, o) ==
    [method |-> "PATCH",
     url |-> sc.baseUrl \o <<"/api/v2/schema/tables/">>
             \o ToStr(Field(o, "tableName")),
     headers |-> SchemaHeaders(sc, TRUE),
     body |-> JSONStringify(o)]

\* dropTable(tableName, cascade = false)
DropTableRequest(sc, table, cascade) ==
    [method |-> "DELETE",
     url |-> sc.baseUrl \o <<"/api/v2/schema/tables/">> \o ToStr(table)
             \o <<"?cascade=">>
             \o ToStr(IF cascade = UNDEF THEN Bool(FALSE) ELSE cascade),
     headers |-> SchemaHeaders(sc, FALSE)]

ExecuteSQLRequest(sc, sql) ==
    [method |-> "POST", url |-> sc.baseUrl \o <<"/api/v2/schema/execute">>,
     headers |-> SchemaHeaders(sc, TRUE),
     body |-> JSONStringify(Obj([sql |-> sql]))]

\* the 403 message of createTable, and the shorter one of the other three
ServiceRoleRequired(op) ==
    IF op = "createTable"
    THEN <<"Schema operations require a SERVICE ROLE key. ",
           "You are using an anonymous key which cannot modify database schema.">>
    ELSE <<"Schema operations require a SERVICE ROLE key.">>

\* `Failed to create table: `, ...
FailedTo(op) ==
    CASE op = "createTable" -> <<"Failed to create table: ">>
      [] op = "alterTable" -> <<"Failed to alter table: ">>
      [] op = "dropTable" -> <<"Failed to drop table: ">>
      [] op = "executeSQL" -> <<"Failed to execute SQL: ">>

\* what each of the four operations does with the answer of its fetch
SchemaOutcome(op, response) ==
    IF ~response.received THEN Threw(FetchFailed)
    ELSE IF response.status = 403
    THEN Threw(Error(ServiceRoleRequired(op)))
    ELSE IF ~response.ok
    THEN LET error == Json(response)
         IN  IF error.threw THEN error
             ELSE Threw(Error(FailedTo(op)
                        \o ToStr(OrElse(Field(error.value, "detail"),
                                        Str(response.statusText)))))
    ELSE Json(response)

\* ------------------------------------------------------------------------
\* Inputs
\* ------------------------------------------------------------------------
\* the query holds at most this many clauses (projection, filters, group-by,
\* having clauses, order, limit, offset)
MaxClauses == 4

\* ... of which at most this many filter clauses and this many having clauses
MaxFilters == 2

MaxHaving == 2

\* where the requests are counted, at most this many calls dispatch
MaxCalls == 3

SelectArgs ==
    { <<Arr(<<Word("id"), Word("name")>>)>>,
      <<Str(<<"id", ",", " ", "name">>)>>,
      <<Word("id"), Word("name")>>,
      <<Str(<<>>)>> }

\* column, operator, value, logical_op (UNDEF: the argument is omitted)
FilterArgs ==
    { <<Word("age"), Word("gte"), Num(18), UNDEF>>,
      <<Word("category"), Word("in"), Arr(<<Word("a"), Word("b")>>), UNDEF>>,
      <<Word("age"), Word("eq"), Arr(<<Num(1), Num(2)>>), Word("AND")>>,
      <<Word("deleted_at"), Word("is"), NULL, Word("OR")>> }

GroupByArgs == { Word("category"), Arr(<<Word("category")>>), Str(<<>>) }

HavingArgs ==
    { <<Word("COUNT(*)"), Word("gt"), Num(5)>>,
      <<Word("AVG(price)"), Word("gte"), Num(50)>> }

OrderList ==
    Arr(<<OrderByItem(Word("category"), Word("asc")),
          OrderByItem(Word("price"), Word("desc"))>>)

\* column, direction (UNDEF: the argument is omitted)
OrderByArgs ==
    { <<Word("created_at"), UNDEF>>, <<Word("created_at"), Word("desc")>>,
      <<OrderList, UNDEF>> }

OrderArgs ==
    { <<Word("created_at"), UNDEF>>, <<Word("created_at"), Word("desc")>> }

LimitArgs == {Num(0), Num(10)}

OffsetArgs == {Num(0), Num(20)}

\* get() / get(undefined) spreads nothing
NoOverrides == <<>>

Overrides ==
    { NoOverrides,
      [limit |-> Num(5), group_by |-> Str(<<"category", ",", " ", "status">>)] }

Rows == <<Obj([id |-> Num(1)]), Obj([id |-> Num(2)])>>

\* a 429 answer with the body { detail: 'Too Many Requests' }
RateLimited ==
    AxiosError(Word("Request failed with status code 429"),
               HttpResponse(429, Obj([detail |-> Word("Too Many Requests")])))

\* a 500 answer whose body is not an object
ServerError ==
    AxiosError(Word("Request failed with status code 500"),
               HttpResponse(500, Word("Internal Server Error")))

\* no answer at all
NetworkError == AxiosError(Word("timeout of 30000ms exceeded"), UNDEF)

TooManyRequests == ErrorInterceptor(RateLimited)

Responses ==
    { Resolved(QueryResponse(<<>>)),
      Resolved(QueryResponse(Rows)),
      Failed(RateLimited) }

\* get and execute hand the envelope through whatever it holds
GetResponses == { Resolved(QueryResponse(Rows)), Failed(RateLimited) }

\* ------------------------------------------------------------------------
\* State
\* ------------------------------------------------------------------------
\* options:   QueryBuilder.options
\* last:      the latest terminal call; NoCall after a chain call
\* prev:      when `last` is a get() with no argument: the call before it, if
\*            that too was a get() with no argument and no chain call came
\*            between; else NoCall
\* orderCall: the arguments of the latest order / orderBy call
\* chainLog:  where it is kept (chainLog.on), the chain calls made so far as
\*            they were written: the latest call with the accumulator it
\*            found, and the arguments passed per accumulator field
\* meter:     where it is kept (meter.on), the number of calls made on
\*            WowSQLClient / Table / QueryBuilder that dispatch, and the
\*            number of HTTP requests put on the wire
\* storage:   the WowSQLStorage client: its config, autoCheckQuota and
\*            quotaCache
\* storageCall: the latest call on the WowSQLStorage client
\* auth:      the ProjectAuthClient: its config, accessToken, refreshToken
\*            and token storage
\* authInFlight: the auth methods that are suspended in their await (a
\*            bag) and how many may be suspended at a time
\* authCall:  the latest auth method that returned or threw
\* schema:    the WowSQLSchema client: its baseUrl and serviceKey
\* schemaCall: the latest call on the WowSQLSchema client
\* net:       the storage server and the storage methods that are suspended
\*            in an await, with their request or its answer in flight
VARIABLES options, last, prev, orderCall, chainLog, meter, storage,
          storageCall, auth, authInFlight, authCall, schema, schemaCall, net

vars ==
    <<options, last, prev, orderCall, chainLog, meter, storage, storageCall,
      auth, authInFlight, authCall, schema, schemaCall, net>>

builderVars == <<options, last, prev, orderCall, chainLog, meter>>

storageVars == <<storage, storageCall, net>>

authVars == <<auth, authInFlight, authCall>>

schemaVars == <<schema, schemaCall>>

NoCall == [op |-> "none"]

Call(op, ov, before, request, response, outcome) ==
    [op |-> op, additionalOptions |-> ov, before |-> before,
     request |-> request, response |-> response, outcome |-> outcome]

NoOrderCall == [called |-> FALSE]

\* direction is UNDEF when the caller gave none
OrderCall(column, direction) ==
    [called |-> TRUE, column |-> column, direction |-> direction]

IsPlainGet(c) == c.op = "get" /\ c.additionalOptions = NoOverrides

Length(x) == IF IsArray(x) THEN Len(x.v) ELSE 0

\* the number of clauses the accumulator holds
QuerySize(o) ==
    Cardinality({k \in {"select", "group_by", "order", "limit", "offset"} :
                    o[k] # UNDEF})
        + Length(o.filter) + Length(o.having)

WithinBounds(o) ==
    /\ QuerySize(o) <= MaxClauses
    /\ Length(o.filter) <= MaxFilters
    /\ Length(o.having) <= MaxHaving

\* the chain log is not kept
NoLog == [on |-> FALSE]

\* the method was not called yet
Never == [called |-> FALSE]

ChainCall(op, args) == [op |-> op, args |-> args]

\* nothing was called yet
EmptyLog ==
    [on |-> TRUE, op |-> "none", args |-> <<>>, before |-> EmptyOptions,
     select |-> Never, filter |-> <<>>, group_by |-> Never, having |-> <<>>,
     limit |-> Never, offset |-> Never]

\* the field of the accumulator a chain method is documented to write
LogField(op) ==
    CASE op = "select" -> "select"
      [] op = "groupBy" -> "group_by"
      [] op = "having" -> "having"
      [] op = "limit" -> "limit"
      [] op = "offset" -> "offset"
      [] op \in {"order", "orderBy"} -> "order"
      [] OTHER -> "filter"

\* the chain log after the call op(args), made on the current accumulator
Logged(op, args) ==
    IF ~chainLog.on THEN chainLog
    ELSE LET l == [chainLog EXCEPT !.op = op, !.args = args,
                                   !.before = options]
         IN  CASE LogField(op) \in {"filter", "having"} ->
                      [l EXCEPT ![LogField(op)] = Append(@, ChainCall(op, args))]
               [] LogField(op) = "order" -> l
               [] OTHER -> [l EXCEPT ![LogField(op)] = ChainCall(op, args)]

\* the requests are not counted
NoMeter == [on |-> FALSE]

ZeroMeter == [on |-> TRUE, calls |-> 0, requests |-> 0]

\* faulty variant of Issued: a failed request is sent a second time
Issued_Retried(request, response) ==
    IF response.ok THEN <<request>> ELSE <<request, request>>

\* what one awaited this.client.get / post / patch / delete call puts on the
\* wire: the axios instance is created with no retry and nothing catches
Issued(request, response) == <<request>>

\* the meter after a call that awaited the given requests
Metered(requests) ==
    IF ~meter.on THEN meter
    ELSE [meter EXCEPT !.calls = @ + 1, !.requests = @ + Len(requests)]

\* the storage service as it is before any request: `available` of its one
\* gigabyte is free and `version` counts the uploads and deletions it has
\* applied; no storage method is suspended, at most `limit` may be;
\* cacheVersion is the version at which the cached snapshot was taken,
\* returned the version of the latest upload or deletion whose call has
\* returned, started the number of calls made, uploads the number of
\* upload requests issued, unchecked those of them issued without a quota
\* check, deletes the number of delete requests issued
NewNet(limit, available) ==
    [limit |-> limit, server |-> [available |-> available, version |-> 0],
     initially |-> available, calls |-> EmptyBag, cacheVersion |-> 0,
     returned |-> 0, started |-> 0, uploads |-> 0, unchecked |-> 0,
     deletes |-> 0]

\* a WowSQLStorage client that is created with the defaults and not used
StorageIdle ==
    /\ storage = NewStorage(Obj([projectSlug |-> Word(projectSlug)]))
    /\ storageCall = NoCall
    /\ net = NewNet(0, 1)

\* no auth method has returned yet; signedIn is the access token that the
\* latest successful signUp, signIn, exchangeOAuthCallback or setSession
\* set (null after clearSession, undefined before any of them)
NoAuthCall == [op |-> "none", signedIn |-> UNDEF]

\* no auth method is suspended, at most `limit` may be
NoneInFlight(limit) == [limit |-> limit, calls |-> EmptyBag]

\* a ProjectAuthClient that is created with the defaults and not used
AuthIdle ==
    /\ auth = NewAuth(Obj([projectUrl |-> Word("myproject")]))
    /\ authInFlight = NoneInFlight(0)
    /\ authCall = NoAuthCall

\* a WowSQLSchema client that is not used
SchemaIdle ==
    /\ schema = NewSchema(<<"https://myproject.wowsql.com">>,
                          <<"wowsql_service_key">>)
    /\ schemaCall = NoCall

\* a fresh QueryBuilder
BuilderIdle ==
    /\ options = EmptyOptions
    /\ last = NoCall
    /\ prev = NoCall
    /\ orderCall = NoOrderCall
    /\ chainLog = NoLog
    /\ meter = NoMeter

\* `new QueryBuilder(client, tableName)`
Init ==
    /\ options = EmptyOptions
    /\ last = NoCall
    /\ prev = NoCall
    /\ orderCall = NoOrderCall
    /\ chainLog = NoLog
    /\ meter = NoMeter
    /\ StorageIdle
    /\ AuthIdle
    /\ SchemaIdle

\* a chain method: mutates this.options, returns this, issues nothing
Chain(o) ==
    /\ WithinBounds(o)
    /\ options' = o
    /\ last' = NoCall
    /\ prev' = NoCall
    /\ UNCHANGED <<meter, storageVars, authVars, schemaVars>>

select ==
    /\ \E columns \in SelectArgs :
          /\ Chain(Select(options, columns))
          /\ chainLog' = Logged("select", columns)
    /\ UNCHANGED orderCall

filter ==
    /\ \E a \in FilterArgs :
          /\ Chain(Filter(options, a[1], a[2], a[3], a[4]))
          /\ chainLog' = Logged("filter", a)
    /\ UNCHANGED orderCall

groupBy ==
    /\ \E columns \in GroupByArgs :
          /\ Chain(GroupBy(options, columns))
          /\ chainLog' = Logged("groupBy", <<columns>>)
    /\ UNCHANGED orderCall

having ==
    /\ \E a \in HavingArgs :
          /\ Chain(Having(options, a[1], a[2], a[3]))
          /\ chainLog' = Logged("having", a)
    /\ UNCHANGED orderCall

orderBy ==
    \E a \in OrderByArgs :
        /\ Chain(OrderBy(options, a[1], a[2]))
        /\ orderCall' = OrderCall(a[1], a[2])
        /\ chainLog' = Logged("orderBy", a)

order ==
    \E a \in OrderArgs :
        /\ Chain(Order(options, a[1], a[2]))
        /\ orderCall' = OrderCall(a[1], a[2])
        /\ chainLog' = Logged("order", a)

limit ==
    /\ \E n \in LimitArgs :
          /\ Chain(Limit(options, n))
          /\ chainLog' = Logged("limit", <<n>>)
    /\ UNCHANGED orderCall

offset ==
    /\ \E n \in OffsetArgs :
          /\ Chain(Offset(options, n))
          /\ chainLog' = Logged("offset", <<n>>)
    /\ UNCHANGED orderCall

\* a terminal method: one request, one response
Terminal(op, ov, o, request, response, outcome) ==
    /\ WithinBounds(o)
    /\ meter.on => meter.calls < MaxCalls
    /\ options' = o
    /\ last' = Call(op, ov, options, request, response, outcome)
    /\ prev' = IF op = "get" /\ ov = NoOverrides /\ IsPlainGet(last)
               THEN last ELSE NoCall
    /\ meter' = Metered(Issued(request, response))
    /\ UNCHANGED <<orderCall, chainLog, storageVars, authVars, schemaVars>>

\* where the requests are counted the transport may also not answer
Unanswered ==
    IF meter.on
    THEN {Failed(ServerError), Failed(NetworkError)}
    ELSE {}

get ==
    \E ov \in Overrides, resp \in GetResponses \cup Unanswered :
        Terminal("get", ov, OptionsAfterGet(options, ov), Get(options, ov),
                 resp, GetResult(resp))

execute ==
    \E ov \in {NoOverrides}, resp \in GetResponses \cup Unanswered :
        Terminal("execute", ov, OptionsAfterGet(options, ov), Get(options, ov),
                 resp, GetResult(resp))

first ==
    \E resp \in Responses \cup Unanswered :
        Terminal("first", NoOverrides,
                 OptionsAfterGet(FirstOptions(options), NoOverrides),
                 Get(FirstOptions(options), NoOverrides),
                 resp, FirstResult(resp))

Next ==
    \/ select
    \/ filter
    \/ groupBy
    \/ having
    \/ orderBy
    \/ order
    \/ limit
    \/ offset
    \/ get
    \/ execute
    \/ first

Spec == Init /\ [][Next]_vars

\* ------------------------------------------------------------------------
\* The path decision over every operator of FilterExpression
\* ------------------------------------------------------------------------
\* at most this many filter clauses where every operator is tried
MaxOperatorFilters == 1

\* FilterExpression['operator']
Operators ==
    {"eq", "neq", "gt", "gte", "lt", "lte", "like", "is", "in", "not_in",
     "between", "not_between", "is_not"}

\* every operator with a scalar and with a list value; two clauses with 'OR'
OperatorArgs ==
    { <<Word("age"), Word(op), v, UNDEF>> :
          op \in Operators, v \in {Num(18), Arr(<<Num(1), Num(2)>>)} }
    \cup { <<Word("age"), Word("eq"), Num(18), Word("OR")>>,
           <<Word("name"), Word("like"), Word("%a%"), Word("OR")>> }

filterOperator ==
    /\ \E a \in OperatorArgs :
          /\ Length(Filter(options, a[1], a[2], a[3], a[4]).filter)
                <= MaxOperatorFilters
          /\ Chain(Filter(options, a[1], a[2], a[3], a[4]))
          /\ chainLog' = Logged("filter", a)
    /\ UNCHANGED orderCall

getPlain ==
    \E resp \in {Resolved(QueryResponse(Rows))} :
        Terminal("get", NoOverrides, OptionsAfterGet(options, NoOverrides),
                 Get(options, NoOverrides), resp, GetResult(resp))

NextOperators ==
    \/ filterOperator
    \/ groupBy
    \/ having
    \/ orderBy
    \/ getPlain

SpecOperators == Init /\ [][NextOperators]_vars

\* ------------------------------------------------------------------------
\* WowSQLClient, Table and QueryBuilder over one transport that is metered
\* ------------------------------------------------------------------------
Ids == { Num(7), Word("abc") }

RowData == { Obj([name |-> Word("John"), age |-> Num(30)]) }

SqlArgs == { Word("SELECT 1") }

\* the failures of the transport: an error answer with a JSON body, an
\* error answer with a text body, no answer
AxiosErrors == { RateLimited, ServerError, NetworkError }

\* what a request may come to: the given answer, or a failure
Outcomes(data) == { Resolved(data) } \cup { Failed(e) : e \in AxiosErrors }

InitClient ==
    /\ options = EmptyOptions
    /\ last = NoCall
    /\ prev = NoCall
    /\ orderCall = NoOrderCall
    /\ chainLog = NoLog
    /\ meter = ZeroMeter
    /\ StorageIdle
    /\ AuthIdle
    /\ SchemaIdle

getById ==
    \E id \in Ids, resp \in Outcomes(Rows[1]) :
        Terminal("getById", NoOverrides, options, GetById(id), resp,
                 GetResult(resp))

create ==
    \E data \in RowData,
       resp \in Outcomes(Obj([id |-> Num(7), message |-> Word("created")])) :
        Terminal("create", NoOverrides, options, Create(data), resp,
                 GetResult(resp))

insert ==
    \E data \in RowData,
       resp \in Outcomes(Obj([id |-> Num(7), message |-> Word("created")])) :
        Terminal("insert", NoOverrides, options, Insert(data), resp,
                 GetResult(resp))

update ==
    \E id \in Ids, data \in RowData,
       resp \in Outcomes(Obj([message |-> Word("updated"),
                              affected_rows |-> Num(1)])) :
        Terminal("update", NoOverrides, options, Update(id, data), resp,
                 GetResult(resp))

delete ==
    \E id \in Ids,
       resp \in Outcomes(Obj([message |-> Word("deleted"),
                              affected_rows |-> Num(1)])) :
        Terminal("delete", NoOverrides, options, Delete(id), resp,
                 GetResult(resp))

listTables ==
    \E resp \in Outcomes(Obj([tables |-> Arr(<<Word("users")>>)])) :
        Terminal("listTables", NoOverrides, options, ListTables, resp,
                 ListTablesResult(resp))

getTableSchema ==
    \E resp \in Outcomes(Obj([table |-> Word("users"), columns |-> Arr(<<>>),
                              primary_key |-> NULL])) :
        Terminal("getTableSchema", NoOverrides, options,
                 GetTableSchema(Word("users")), resp, GetResult(resp))

query ==
    \E sql \in SqlArgs,
       resp \in Outcomes(Obj([results |-> Arr(Rows)])) \cup {Resolved(Arr(Rows))} :
        Terminal("query", NoOverrides, options, RawQuery(sql), resp,
                 RawQueryResult(resp))

health ==
    \E resp \in Outcomes(Obj([status |-> Word("ok"),
                              timestamp |-> Word("2024-01-01T00:00:00Z")])) :
        Terminal("health", NoOverrides, options, Health, resp, GetResult(resp))

NextClient ==
    \/ filter
    \/ get
    \/ execute
    \/ first
    \/ getById
    \/ create
    \/ insert
    \/ update
    \/ delete
    \/ listTables
    \/ getTableSchema
    \/ query
    \/ health

SpecClient == InitClient /\ [][NextClient]_vars

\* ------------------------------------------------------------------------
\* get(additionalOptions) with every kind of override
\* ------------------------------------------------------------------------
OverrideArgs ==
    { [limit |-> Num(5)],
      [select |-> Word("id"), offset |-> Num(20)],
      [group_by |-> Arr(<<Word("category")>>)],
      [having |-> HavingFilter(Word("COUNT(*)"), Word("gt"), Num(5))],
      [order |-> OrderList],
      [filter |-> FilterExpression(Word("age"), Word("eq"),
                                   Arr(<<Num(1), Num(2)>>), Word("AND"))] }

getWith ==
    \E ov \in OverrideArgs, resp \in GetResponses :
        Terminal("get", ov, OptionsAfterGet(options, ov), Get(options, ov),
                 resp, GetResult(resp))

NextOverrides ==
    \/ select
    \/ filter
    \/ order
    \/ limit
    \/ getWith
    \/ getPlain

SpecOverrides == Init /\ [][NextOverrides]_vars

\* ------------------------------------------------------------------------
\* The chain methods and the convenience methods, with the chain log kept
\* ------------------------------------------------------------------------
\* column, value
CompareArgs == { <<Word("age"), Num(18)>> }

ColumnArgs == { Word("deleted_at") }

\* column, values
InArgs == { <<Word("category"), Arr(<<Word("a"), Word("b")>>)>> }

\* column, minValue, maxValue
BetweenArgs == { <<Word("price"), Num(10), Num(100)>> }

\* column, operator, value
OrArgs ==
    { <<Word("age"), Word("eq"), Num(18)>>,
      <<Word("name"), Word("like"), Word("%a%")>> }

InitChain ==
    /\ options = EmptyOptions
    /\ last = NoCall
    /\ prev = NoCall
    /\ orderCall = NoOrderCall
    /\ chainLog = EmptyLog
    /\ meter = NoMeter
    /\ StorageIdle
    /\ AuthIdle
    /\ SchemaIdle

\* eq, neq, gt, gte, lt, lte, like
CompareMethod(op) ==
    /\ \E a \in CompareArgs :
          /\ Chain(Compare(options, op, a[1], a[2]))
          /\ chainLog' = Logged(op, a)
    /\ UNCHANGED orderCall

eq == CompareMethod("eq")

neq == CompareMethod("neq")

gt == CompareMethod("gt")

gte == CompareMethod("gte")

lt == CompareMethod("lt")

lte == CompareMethod("lte")

like == CompareMethod("like")

isNull ==
    /\ \E column \in ColumnArgs :
          /\ Chain(IsNull(options, column))
          /\ chainLog' = Logged("isNull", <<column>>)
    /\ UNCHANGED orderCall

isNotNull ==
    /\ \E column \in ColumnArgs :
          /\ Chain(IsNotNull(options, column))
          /\ chainLog' = Logged("isNotNull", <<column>>)
    /\ UNCHANGED orderCall

in ==
    /\ \E a \in InArgs :
          /\ Chain(In(options, a[1], a[2]))
          /\ chainLog' = Logged("in", a)
    /\ UNCHANGED orderCall

notIn ==
    /\ \E a \in InArgs :
          /\ Chain(NotIn(options, a[1], a[2]))
          /\ chainLog' = Logged("notIn", a)
    /\ UNCHANGED orderCall

between ==
    /\ \E a \in BetweenArgs :
          /\ Chain(Between(options, a[1], a[2], a[3]))
          /\ chainLog' = Logged("between", a)
    /\ UNCHANGED orderCall

notBetween ==
    /\ \E a \in BetweenArgs :
          /\ Chain(NotBetween(options, a[1], a[2], a[3]))
          /\ chainLog' = Logged("notBetween", a)
    /\ UNCHANGED orderCall

or ==
    /\ \E a \in OrArgs :
          /\ Chain(Or(options, a[1], a[2], a[3]))
          /\ chainLog' = Logged("or", a)
    /\ UNCHANGED orderCall

NextChain ==
    \/ select
    \/ filter
    \/ groupBy
    \/ having
    \/ orderBy
    \/ order
    \/ limit
    \/ offset

SpecChain == InitChain /\ [][NextChain]_vars

\* the FilterExpression objects the README passes to filter
FilterExpressionArgs ==
    { Obj([column |-> Word("age"), operator |-> Word("gte"),
           value |-> Num(18)]),
      Obj([column |-> Word("country"), operator |-> Word("eq"),
           value |-> Word("USA")]) }

\* filter(expression): the object binds to `column`, `operator` and `value`
\* are undefined and logical_op takes its default
filterExpression ==
    /\ \E e \in FilterExpressionArgs :
          /\ Chain(Filter(options, e, UNDEF, UNDEF, UNDEF))
          /\ chainLog' = Logged("filterExpression", <<e>>)
    /\ UNCHANGED orderCall

NextConvenience ==
    \/ filter
    \/ filterExpression
    \/ getPlain
    \/ eq
    \/ neq
    \/ gt
    \/ gte
    \/ lt
    \/ lte
    \/ like
    \/ isNull
    \/ isNotNull
    \/ in
    \/ notIn
    \/ between
    \/ notBetween
    \/ or

SpecConvenience == InitChain /\ [][NextConvenience]_vars

\* ------------------------------------------------------------------------
\* limit and offset with zero and negative values, on both paths
\* ------------------------------------------------------------------------
SignedArgs == { Num(0 - 5), Num(0), Num(3) }

SignedOverrides ==
    { NoOverrides, [limit |-> Num(0)], [offset |-> Num(0 - 1)],
      [limit |-> Num(0 - 2), offset |-> Num(0)] }

limitSigned ==
    /\ \E n \in SignedArgs :
          /\ Chain(Limit(options, n))
          /\ chainLog' = Logged("limit", <<n>>)
    /\ UNCHANGED orderCall

offsetSigned ==
    /\ \E n \in SignedArgs :
          /\ Chain(Offset(options, n))
          /\ chainLog' = Logged("offset", <<n>>)
    /\ UNCHANGED orderCall

getSigned ==
    \E ov \in SignedOverrides, resp \in {Resolved(QueryResponse(Rows))} :
        Terminal("get", ov, OptionsAfterGet(options, ov), Get(options, ov),
                 resp, GetResult(resp))

NextLimits ==
    \/ limitSigned
    \/ offsetSigned
    \/ filter
    \/ groupBy
    \/ getSigned

SpecLimits == InitChain /\ [][NextLimits]_vars

\* ------------------------------------------------------------------------
\* Two builders of one client and the filter parameter each sends
\* ------------------------------------------------------------------------
\* column, operator, value; the first value is the text a,b.eq.c
TextFilterArgs ==
    { <<Word("x"), Word("eq"), Str(<<"a", ",", "b", ".", "eq", ".", "c">>)>>,
      <<Word("x"), Word("eq"), Word("a")>>,
      <<Word("b"), Word("eq"), Word("c")>>,
      <<Word("x"), Word("neq"), Word("c")>> }

\* filter(column, operator, value) on the current builder; the get() of the
\* builder before it stays recorded in prev
filterText ==
    /\ \E a \in TextFilterArgs :
          LET o == Filter(options, a[1], a[2], a[3], UNDEF)
          IN  /\ WithinBounds(o)
              /\ options' = o
    /\ last' = NoCall
    /\ UNCHANGED <<prev, orderCall, chainLog, meter, storageVars, authVars,
                   schemaVars>>

\* get() on the current builder
getText ==
    /\ \E resp \in {Resolved(QueryResponse(Rows))} :
          last' = Call("get", NoOverrides, options, Get(options, NoOverrides),
                       resp, GetResult(resp))
    /\ options' = OptionsAfterGet(options, NoOverrides)
    /\ UNCHANGED <<prev, orderCall, chainLog, meter, storageVars, authVars,
                   schemaVars>>

\* client.table(name) and the first call on it: `new QueryBuilder(...)`,
\* whose options are empty; the get() of the builder left is kept in prev
table ==
    /\ last.op = "get"
    /\ prev = NoCall
    /\ prev' = last
    /\ last' = NoCall
    /\ options' = EmptyOptions
    /\ UNCHANGED <<orderCall, chainLog, meter, storageVars, authVars,
                   schemaVars>>

NextTokens ==
    \/ filterText
    \/ getText
    \/ table

SpecTokens == Init /\ [][NextTokens]_vars

\* ------------------------------------------------------------------------
\* WowSQLStorage, one call at a time
\* ------------------------------------------------------------------------
StorageConfigs ==
    { Obj([projectSlug |-> Word(projectSlug)]),
      Obj([projectSlug |-> Word(projectSlug), autoCheckQuota |-> Bool(TRUE)]),
      Obj([projectSlug |-> Word(projectSlug), autoCheckQuota |-> Bool(FALSE)]) }

\* the storage plan holds this many gigabytes
ServerQuotaGb == 1

\* StorageQuota with the given storage_available_gb out of the plan's
Quota(available) ==
    Obj([storage_quota_gb |-> Num(ServerQuotaGb),
         storage_used_gb |-> Num(ServerQuotaGb - available),
         storage_available_gb |-> Num(available)])

\* a 413 answer of the server
PayloadTooLarge ==
    AxiosError(Word("Request failed with status code 413"),
               HttpResponse(413, Obj([detail |-> Word("Storage limit exceeded")])))

QuotaResponses ==
    { Resolved(Quota(0)), Resolved(Quota(1)),
      StorageFailed(ServerError), StorageFailed(NetworkError) }

UploadResponses ==
    { Resolved(Obj([success |-> Bool(TRUE), file_key |-> Word("a.pdf")])),
      StorageFailed(PayloadTooLarge), StorageFailed(NetworkError) }

DeleteResponses ==
    { Resolved(Obj([success |-> Bool(TRUE), file_key |-> Word("a.pdf")])),
      StorageFailed(ServerError) }

\* forceRefresh (UNDEF: the argument is omitted)
ForceRefreshArgs == { UNDEF, Bool(FALSE), Bool(TRUE) }

\* file sizes in bytes: empty, exactly 1 GB, one byte more
FileSizes == { 0, GiB, GiB + 1 }

\* the options of uploadFile (UNDEF: the argument is omitted)
UploadOptions ==
    { UNDEF, Obj([folder |-> Word("documents")]),
      Obj([checkQuota |-> Bool(TRUE)]), Obj([checkQuota |-> Bool(FALSE)]) }

\* `after` tells which call came before this one and whether it threw
StorageCall(op, args, result) ==
    [op |-> op, args |-> args, before |-> storage,
     after |-> [op |-> storageCall.op,
                threw |-> storageCall # NoCall /\ storageCall.outcome.threw],
     requests |-> result.requests, answers |-> result.answers,
     outcome |-> result.outcome]

\* one call on the storage client, run to its end
StorageStep(op, args, result) ==
    /\ storage' = [storage EXCEPT !.quotaCache = result.quotaCache]
    /\ storageCall' = StorageCall(op, args, result)
    /\ UNCHANGED <<net, builderVars, authVars, schemaVars>>

InitStorage ==
    /\ options = EmptyOptions
    /\ last = NoCall
    /\ prev = NoCall
    /\ orderCall = NoOrderCall
    /\ chainLog = NoLog
    /\ meter = NoMeter
    /\ \E config \in StorageConfigs : storage = NewStorage(config)
    /\ storageCall = NoCall
    /\ net = NewNet(0, 1)
    /\ AuthIdle
    /\ SchemaIdle

getQuota ==
    \E forceRefresh \in ForceRefreshArgs, resp \in QuotaResponses :
        StorageStep("getQuota", <<forceRefresh>>,
                    GetQuota(storage.quotaCache, forceRefresh, resp))

checkUploadAllowed ==
    \E fileSize \in FileSizes, resp \in QuotaResponses :
        StorageStep("checkUploadAllowed", <<fileSize>>,
                    CheckUploadAllowed(storage.quotaCache, fileSize, resp))

uploadFile ==
    \E fileSize \in FileSizes, options_ \in UploadOptions,
       quotaResp \in QuotaResponses, uploadResp \in UploadResponses :
        StorageStep("uploadFile", <<fileSize, Word("a.pdf"), options_>>,
                    UploadFile(storage, fileSize, Word("a.pdf"), options_,
                               quotaResp, uploadResp))

deleteFile ==
    \E resp \in DeleteResponses :
        StorageStep("deleteFile", <<Word("a.pdf")>>,
                    DeleteFile(storage.quotaCache, Word("a.pdf"), resp))

NextStorage ==
    \/ getQuota
    \/ checkUploadAllowed
    \/ uploadFile
    \/ deleteFile

SpecStorage == InitStorage /\ [][NextStorage]_vars

\* ------------------------------------------------------------------------
\* WowSQLStorage with its methods suspended in their awaits: a request is
\* sent, the server handles it, and the method resumes with the answer
\* ------------------------------------------------------------------------
\* at most this many storage calls are made
MaxStorageCalls == 3

\* at most this many storage methods are suspended at a time
MaxSuspended == 2

\* a 404 answer of the server
FileNotFound ==
    AxiosError(Word("Request failed with status code 404"),
               HttpResponse(404, Obj([detail |-> Word("File not found")])))

\* a storage method suspended in the await of the request `phase`; sent is
\* the request where the server has not handled it yet, and answer is the
\* response, with the version of the server it reflects, where it has
Suspended(op, args, phase) ==
    [op |-> op, args |-> args, phase |-> phase, handled |-> FALSE]

Answered(call, resp, version) ==
    [op |-> call.op, args |-> call.args, phase |-> call.phase,
     handled |-> TRUE, answer |-> resp, version |-> version]

\* the method runs to an await: its request is on the way
Suspend(n, call) == [n EXCEPT !.calls = @ (+) SetToBag({call})]

\* a call is made (the client takes at most limit calls at a time)
Started(n) == [n EXCEPT !.started = @ + 1]

CanStart ==
    /\ net.started < MaxStorageCalls
    /\ BagCardinality(net.calls) < net.limit

\* the record of a storage method that returned or threw; version is the
\* server version of the quota snapshot it returned (0 where it returned
\* none)
Completed(op, args, outcome, version) ==
    [op |-> op, args |-> args, outcome |-> outcome, version |-> version]

InitStorageAsync ==
    /\ BuilderIdle
    /\ AuthIdle
    /\ SchemaIdle
    /\ storage = NewStorage(Obj([projectSlug |-> Word(projectSlug)]))
    /\ storageCall = NoCall
    /\ net = NewNet(MaxSuspended, ServerQuotaGb)

\* getQuota(forceRefresh) up to its await, or to its end when the cached
\* snapshot is returned
callGetQuota ==
    /\ CanStart
    /\ \E forceRefresh \in {UNDEF, Bool(TRUE)} :
          IF Truthy(storage.quotaCache) /\ ~Truthy(forceRefresh)
          THEN /\ storageCall' = Completed("getQuota", <<forceRefresh>>,
                                           Returned(storage.quotaCache),
                                           net.cacheVersion)
               /\ net' = Started(net)
          ELSE /\ net' = Suspend(Started(net),
                                 Suspended("getQuota", <<forceRefresh>>,
                                           "quota"))
               /\ UNCHANGED storageCall
    /\ UNCHANGED <<storage, builderVars, authVars, schemaVars>>

\* checkUploadAllowed(fileSizeBytes) up to the await of getQuota(true)
callCheckUploadAllowed ==
    /\ CanStart
    /\ net' = Suspend(Started(net),
                      Suspended("checkUploadAllowed", <<GiB>>, "quota"))
    /\ UNCHANGED <<storage, storageCall, builderVars, authVars, schemaVars>>

\* uploadFile(fileData, fileName, options) up to its first await: the quota
\* request of checkUploadAllowed when it is to check, else the upload
callUploadFile ==
    /\ CanStart
    /\ \E options_ \in {UNDEF, Obj([checkQuota |-> Bool(FALSE)])} :
          LET given == Field(options_, "checkQuota")
              shouldCheck == IF given # UNDEF THEN given
                             ELSE Bool(storage.autoCheckQuota)
              args == <<GiB, Word("a.pdf"), options_>>
          IN  IF Truthy(shouldCheck)
              THEN net' = Suspend(Started(net),
                                  Suspended("uploadFile", args, "quota"))
              ELSE net' = [Suspend(Started(net),
                                   Suspended("uploadFile", args, "upload"))
                              EXCEPT !.uploads = @ + 1, !.unchecked = @ + 1]
    /\ UNCHANGED <<storage, storageCall, builderVars, authVars, schemaVars>>

\* deleteFile(fileKey) up to its await
callDeleteFile ==
    /\ CanStart
    /\ net' = [Suspend(Started(net),
                       Suspended("deleteFile", <<Word("a.pdf")>>, "delete"))
                   EXCEPT !.deletes = @ + 1]
    /\ UNCHANGED <<storage, storageCall, builderVars, authVars, schemaVars>>

\* the server handles a request: a quota request is answered with the
\* storage available now (or fails), an upload that fits is stored, a
\* deletion frees the gigabyte that is in use
serverHandles ==
    /\ \E call \in BagToSet(net.calls) :
          /\ ~call.handled
          /\ LET rest == net.calls (-) SetToBag({call})
                 v == net.server.version
                 free == net.server.available
                 done == Resolved(Obj([success |-> Bool(TRUE),
                                       file_key |-> Word("a.pdf")]))
             IN  CASE call.phase = "quota" ->
                        \E resp \in {Resolved(Quota(free)),
                                      StorageFailed(ServerError)} :
                            net' = [net EXCEPT !.calls = rest (+)
                                       SetToBag({Answered(call, resp, v)})]
                   [] call.phase = "upload" ->
                        IF call.args[1] <= free * GiB
                        THEN net' = [net EXCEPT
                                 !.server = [available |-> free - 1,
                                             version |-> v + 1],
                                 !.calls = rest (+)
                                     SetToBag({Answered(call, done, v + 1)})]
                        ELSE net' = [net EXCEPT !.calls = rest (+)
                                 SetToBag({Answered(call,
                                     StorageFailed(PayloadTooLarge), v)})]
                   [] call.phase = "delete" ->
                        IF free < ServerQuotaGb
                        THEN net' = [net EXCEPT
                                 !.server = [available |-> free + 1,
                                             version |-> v + 1],
                                 !.calls = rest (+)
                                     SetToBag({Answered(call, done, v + 1)})]
                        ELSE net' = [net EXCEPT !.calls = rest (+)
                                 SetToBag({Answered(call,
                                     StorageFailed(FileNotFound), v)})]
    /\ UNCHANGED <<storage, storageCall, builderVars, authVars, schemaVars>>

\* the answer arrives and the suspended method resumes: getQuota stores and
\* returns the snapshot; checkUploadAllowed and uploadFile go on from the
\* snapshot of getQuota(true), uploadFile to its upload request; uploadFile
\* and deleteFile clear the cache when their request succeeded
resumed ==
    /\ \E call \in BagToSet(net.calls) :
          /\ call.handled
          /\ LET rest == net.calls (-) SetToBag({call})
                 cached == [storage EXCEPT !.quotaCache = call.answer.data]
                 ends(outcome, version) ==
                     storageCall' = Completed(call.op, call.args, outcome,
                                              version)
             IN  IF ~call.answer.ok
                 THEN /\ ends(Threw(call.answer.error), 0)
                      /\ net' = [net EXCEPT !.calls = rest]
                      /\ UNCHANGED storage
                 ELSE CASE call.phase = "quota" /\ call.op = "getQuota" ->
                             /\ storage' = cached
                             /\ ends(Returned(call.answer.data), call.version)
                             /\ net' = [net EXCEPT !.calls = rest,
                                            !.cacheVersion = call.version]
                        [] call.phase = "quota"
                               /\ call.op = "checkUploadAllowed" ->
                             /\ storage' = cached
                             /\ ends(Returned(Obj([allowed |->
                                     Bool(~ExceedsQuota(call.args[1],
                                                        call.answer.data))])),
                                     0)
                             /\ net' = [net EXCEPT !.calls = rest,
                                            !.cacheVersion = call.version]
                        [] call.phase = "quota" /\ call.op = "uploadFile" ->
                             /\ storage' = cached
                             /\ IF ExceedsQuota(call.args[1], call.answer.data)
                                THEN /\ ends(Threw(StorageLimitExceededError(
                                             Word("Storage limit exceeded!"),
                                             Num(413), UNDEF)), 0)
                                     /\ net' = [net EXCEPT !.calls = rest,
                                            !.cacheVersion = call.version]
                                ELSE /\ UNCHANGED storageCall
                                     /\ net' = [net EXCEPT
                                            !.calls = rest (+) SetToBag({
                                                Suspended(call.op, call.args,
                                                          "upload")}),
                                            !.cacheVersion = call.version,
                                            !.uploads = @ + 1]
                        [] call.phase \in {"upload", "delete"} ->
                             /\ storage' = [storage EXCEPT
                                               !.quotaCache = UNDEF]
                             /\ ends(Returned(call.answer.data), 0)
                             /\ net' = [net EXCEPT !.calls = rest,
                                     !.returned = IF call.version > @
                                                  THEN call.version ELSE @]
    /\ UNCHANGED <<builderVars, authVars, schemaVars>>

NextStorageAsync ==
    \/ callGetQuota
    \/ callCheckUploadAllowed
    \/ callUploadFile
    \/ callDeleteFile
    \/ serverHandles
    \/ resumed

SpecStorageAsync == InitStorageAsync /\ [][NextStorageAsync]_vars

\* ------------------------------------------------------------------------
\* ProjectAuthClient: methods suspended in their await, and their completion
\* ------------------------------------------------------------------------
\* at most this many auth methods are suspended at a time
MaxInFlight == 2

\* the body of a successful signup / login / OAuth callback response
TokenResponse(k, user) ==
    Obj([access_token |-> Str(<<"access", ToString(k)>>),
         refresh_token |-> Str(<<"refresh", ToString(k)>>),
         token_type |-> Word("bearer"),
         user |-> user])

AuthUserData ==
    Obj([id |-> Word("u1"), email |-> Word("user@example.com"),
         full_name |-> Word("User"), email_verified |-> Bool(TRUE)])

\* an auth request that failed with the AxiosError `cause` (the auth client
\* installs no interceptor)
AuthFailed(cause) == [ok |-> FALSE, cause |-> cause]

BadGateway ==
    AxiosError(Word("Request failed with status code 502"),
               HttpResponse(502, Word("Bad Gateway")))

BadRequest ==
    AxiosError(Word("Request failed with status code 400"),
               HttpResponse(400, Obj([detail |-> Word("Provider not enabled")])))

\* the answers the request of the method `op` may get
AuthResponses(op) ==
    CASE op \in {"signUp", "signIn", "exchangeOAuthCallback"} ->
            { Resolved(TokenResponse(1, AuthUserData)),
              Resolved(TokenResponse(2, UNDEF)),
              AuthFailed(RateLimited), AuthFailed(NetworkError) }
      [] op = "getUser" ->
            { Resolved(AuthUserData), AuthFailed(RateLimited) }
      [] op = "getOAuthAuthorizationUrl" ->
            { Resolved(Obj([authorization_url |-> Word("https://github.com/login/oauth/authorize"),
                            provider |-> Word("github"),
                            backend_callback_url |-> Word("https://myproject.wowsql.com/cb")])),
              AuthFailed(BadGateway), AuthFailed(BadRequest),
              AuthFailed(NetworkError) }
      [] OTHER ->
            { Resolved(Obj([success |-> Bool(TRUE)])),
              AuthFailed(ServerError) }

\* config.storage: a custom token storage that already holds a session
PreloadedStorage ==
    Obj([accessToken |-> Word("stored-access"),
         refreshToken |-> Word("stored-refresh")])

AuthConfigs ==
    { Obj([projectUrl |-> Word("myproject")]),
      Obj([projectUrl |-> Word("myproject"), storage |-> PreloadedStorage]) }

SignUpArgs ==
    { Obj([email |-> Word("user@example.com"), password |-> Word("pw"),
           fullName |-> Word("User")]) }

SignInArgs ==
    { Obj([email |-> Word("user@example.com"), password |-> Word("pw")]) }

\* provider, code, redirectUri
OAuthCallbackArgs == { <<Word("github"), Word("code"), UNDEF>> }

\* provider, redirectUri
OAuthUrlArgs ==
    { <<Word("github"), Str(<<" ", "http://localhost:5000/cb">>)>>,
      <<Word("github"), Str(<<" ">>)>>,
      <<Str(<<>>), Word("http://localhost:5000/cb")>> }

\* the accessToken argument of getUser (UNDEF: omitted)
GetUserArgs == { UNDEF, Word("given-access"), Str(<<>>) }

SetSessionArgs ==
    { Obj([accessToken |-> Word("set-access1"),
           refreshToken |-> Word("set-refresh1")]),
      Obj([accessToken |-> Word("set-access2")]),
      Obj([accessToken |-> Word("set-access3"), refreshToken |-> NULL]) }

\* the access token a method leaves as the one signed in with
SignedIn(op, args, resp) ==
    CASE op \in {"signUp", "signIn", "exchangeOAuthCallback"} /\ resp.ok ->
            Field(resp.data, "access_token")
      [] op = "setSession" -> Field(args[1], "accessToken")
      [] op = "clearSession" -> NULL
      [] OTHER -> authCall.signedIn

\* the record of a method that returned or threw: the client and the
\* signed-in token when it was called (atStart), the client when its last
\* synchronous part began (before), its requests and their answers
AuthCall(op, args, atStart, requests, answers, result) ==
    [op |-> op, args |-> args, atStart |-> atStart, before |-> auth,
     requests |-> requests, answers |-> answers, outcome |-> result.outcome,
     signedIn |-> IF answers = <<>> THEN SignedIn(op, args, [ok |-> FALSE])
                  ELSE SignedIn(op, args, answers[1])]

\* the client and the signed-in token as a method finds them when called
AtStart == [auth |-> auth, signedIn |-> authCall.signedIn]

\* a method that runs to its end without awaiting anything
AuthReturn(op, args, result) ==
    /\ auth' = result.auth
    /\ authCall' = AuthCall(op, args, AtStart, <<>>, <<>>, result)
    /\ UNCHANGED <<authInFlight, builderVars, storageVars, schemaVars>>

\* a method that runs to its await: the request is issued and the method
\* is suspended
AuthAwait(op, args, request) ==
    /\ BagCardinality(authInFlight.calls) < authInFlight.limit
    /\ authInFlight' =
          [authInFlight EXCEPT !.calls =
              @ (+) SetToBag({[op |-> op, args |-> args, atStart |-> AtStart,
                               request |-> request]})]
    /\ UNCHANGED <<auth, authCall, builderVars, storageVars, schemaVars>>

\* `new ProjectAuthClient(config)`, its methods called one at a time
InitAuth ==
    /\ BuilderIdle
    /\ StorageIdle
    /\ SchemaIdle
    /\ \E config \in AuthConfigs : auth = NewAuth(config)
    /\ authInFlight = NoneInFlight(1)
    /\ authCall = NoAuthCall

\* `new ProjectAuthClient(config)` with the default token storage, its
\* methods called while others are suspended
InitAuthAsync ==
    /\ BuilderIdle
    /\ StorageIdle
    /\ SchemaIdle
    /\ auth = NewAuth(Obj([projectUrl |-> Word("myproject")]))
    /\ authInFlight = NoneInFlight(MaxInFlight)
    /\ authCall = NoAuthCall

signUp ==
    \E payload \in SignUpArgs :
        AuthAwait("signUp", <<payload>>, SignUpRequest(payload))

signIn ==
    \E payload \in SignInArgs :
        AuthAwait("signIn", <<payload>>, SignInRequest(payload))

exchangeOAuthCallback ==
    \E a \in OAuthCallbackArgs :
        AuthAwait("exchangeOAuthCallback", a,
                  OAuthCallbackRequest(a[1], a[2], a[3]))

getUser ==
    \E accessToken \in GetUserArgs :
        LET token == GetUserToken(auth, accessToken)
        IN  IF ~Truthy(token)
            THEN AuthReturn("getUser", <<accessToken>>,
                     AuthResult(auth, Threw(WOWSQLError(
                         Word("Access token is required. Please sign in first."),
                         UNDEF, UNDEF))))
            ELSE AuthAwait("getUser", <<accessToken>>, GetUserRequest(token))

getOAuthAuthorizationUrl ==
    \E a \in OAuthUrlArgs :
        IF ~Truthy(a[2]) \/ trim(a[2].v) = <<>>
        THEN AuthReturn("getOAuthAuthorizationUrl", a,
                 AuthResult(auth, Threw(WOWSQLError(
                     Word("redirectUri is required and cannot be empty"),
                     UNDEF, UNDEF))))
        ELSE IF ~Truthy(a[1]) \/ trim(a[1].v) = <<>>
        THEN AuthReturn("getOAuthAuthorizationUrl", a,
                 AuthResult(auth, Threw(WOWSQLError(
                     Word("provider is required and cannot be empty"),
                     UNDEF, UNDEF))))
        ELSE AuthAwait("getOAuthAuthorizationUrl", a,
                       OAuthUrlRequest(a[1], a[2]))

forgotPassword ==
    AuthAwait("forgotPassword", <<Word("user@example.com")>>,
              ForgotPasswordRequest(Word("user@example.com")))

resetPassword ==
    AuthAwait("resetPassword", <<Word("reset-token"), Word("new-pw")>>,
              ResetPasswordRequest(Word("reset-token"), Word("new-pw")))

getSession ==
    AuthReturn("getSession", <<>>, AuthResult(auth, Returned(GetSession(auth))))

setSession ==
    \E session \in SetSessionArgs :
        AuthReturn("setSession", <<session>>,
                   AuthResult(SetSession(auth, session), Returned(UNDEF)))

clearSession ==
    AuthReturn("clearSession", <<>>,
               AuthResult(ClearSession(auth), Returned(UNDEF)))

\* the request of a suspended method is answered and the method runs to its
\* end
authSettled ==
    \E call \in BagToSet(authInFlight.calls) :
        /\ \E resp \in AuthResponses(call.op) :
              LET result == Settled(auth, call.op, call.args, resp)
              IN  /\ auth' = result.auth
                  /\ authCall' = AuthCall(call.op, call.args, call.atStart,
                                          <<call.request>>, <<resp>>, result)
        /\ authInFlight' =
              [authInFlight EXCEPT !.calls = @ (-) SetToBag({call})]
        /\ UNCHANGED <<builderVars, storageVars, schemaVars>>

NextAuth ==
    \/ signUp
    \/ signIn
    \/ exchangeOAuthCallback
    \/ getUser
    \/ getOAuthAuthorizationUrl
    \/ forgotPassword
    \/ resetPassword
    \/ getSession
    \/ setSession
    \/ clearSession
    \/ authSettled

SpecAuth == InitAuth /\ [][NextAuth]_vars

NextAuthAsync ==
    \/ signUp
    \/ signIn
    \/ exchangeOAuthCallback
    \/ setSession
    \/ clearSession
    \/ authSettled

SpecAuthAsync == InitAuthAsync /\ [][NextAuthAsync]_vars

\* ------------------------------------------------------------------------
\* WowSQLSchema, one call at a time
\* ------------------------------------------------------------------------
ProjectUrls ==
    { <<"https://myproject.wowsql.com">>,
      <<"https://myproject.wowsql.com", "/">> }

\* a service role key and an anonymous key
SchemaKeys == { <<"wowsql_service_key">>, <<"wowsql_anon_key">> }

JsonBody(value) == [json |-> TRUE, value |-> value]

NotJson == [json |-> FALSE]

\* the answers a schema request may get; the last is no answer at all
SchemaResponses ==
    { Response(200, <<"OK">>, JsonBody(Obj([success |-> Bool(TRUE)]))),
      Response(201, <<"Created">>,
               JsonBody(Obj([success |-> Bool(TRUE),
                             table |-> Word("users")]))),
      Response(403, <<"Forbidden">>,
               JsonBody(Obj([detail |-> Word("Not enough permissions")]))),
      Response(403, <<"Forbidden">>, NotJson),
      Response(400, <<"Bad Request">>,
               JsonBody(Obj([detail |-> Word("Table already exists")]))),
      Response(500, <<"Internal Server Error">>,
               JsonBody(Obj([error |-> Word("boom")]))),
      Response(502, <<"Bad Gateway">>, NotJson),
      [received |-> FALSE] }

CreateTableArgs ==
    { Obj([tableName |-> Word("users"),
           columns |-> Arr(<<Obj([name |-> Word("id"), type |-> Word("INT")])>>),
           primaryKey |-> Word("id")]),
      Obj([tableName |-> Word("logs"),
           columns |-> Arr(<<Obj([name |-> Word("at"),
                                  type |-> Word("DATETIME")])>>)]) }

AlterTableArgs ==
    { Obj([tableName |-> Word("users"), operation |-> Word("add_column"),
           columnName |-> Word("age"), columnType |-> Word("INT")]),
      Obj([tableName |-> Word("users"), operation |-> Word("drop_column"),
           columnName |-> Word("age")]) }

\* tableName, cascade (UNDEF: omitted)
DropTableArgs ==
    { <<Word("users"), UNDEF>>, <<Word("users"), Bool(TRUE)>>,
      <<Word("logs"), Bool(FALSE)>> }

ExecuteSQLArgs ==
    { Word("CREATE INDEX i ON users(email)"), Word("DROP VIEW v") }

SchemaCall(op, args, request, response) ==
    [op |-> op, args |-> args, requests |-> <<request>>,
     response |-> response, outcome |-> SchemaOutcome(op, response)]

\* one call on the schema client, run to its end
SchemaStep(op, args, request) ==
    /\ \E response \in SchemaResponses :
          schemaCall' = SchemaCall(op, args, request, response)
    /\ UNCHANGED <<schema, builderVars, storageVars, authVars>>

InitSchema ==
    /\ BuilderIdle
    /\ StorageIdle
    /\ AuthIdle
    /\ \E projectUrl \in ProjectUrls, serviceKey \in SchemaKeys :
          schema = NewSchema(projectUrl, serviceKey)
    /\ schemaCall = NoCall

createTable ==
    \E o \in CreateTableArgs :
        SchemaStep("createTable", <<o>>, CreateTableRequest(schema, o))

alterTable ==
    \E o \in AlterTableArgs :
        SchemaStep("alterTable", <<o>>, AlterTableRequest(schema, o))

dropTable ==
    \E a \in DropTableArgs :
        SchemaStep("dropTable", a, DropTableRequest(schema, a[1], a[2]))

executeSQL ==
    \E sql \in ExecuteSQLArgs :
        SchemaStep("executeSQL", <<sql>>, ExecuteSQLRequest(schema, sql))

NextSchema ==
    \/ createTable
    \/ alterTable
    \/ dropTable
    \/ executeSQL

SpecSchema == InitSchema /\ [][NextSchema]_vars

\* ------------------------------------------------------------------------
\* Vocabulary of the properties
\* ------------------------------------------------------------------------
TableUrl == <<"/", tableName>>

QueryUrl == <<"/", tableName, "/query">>

WireKeys == {"select", "filter", "order", "order_direction", "limit", "offset"}

BodyKeys == {"select", "filters", "group_by", "having", "order_by",
             "order_direction", "limit", "offset"}

\* the query a get call compiles: the accumulator as it was when the call
\* was made, with the overrides of that call layered on
Query == Merge(last.before, last.additionalOptions)

\* what the request carries: the query parameters or the JSON body
Sent(r) == IF r.method = "GET" THEN r.params ELSE r.data

\* the clauses of a filter / having list
Clauses(x) == IF IsArray(x) THEN x.v ELSE IF x = UNDEF THEN <<>> ELSE <<x>>

\* a field that is set to something other than the empty string
NonEmpty(x) == x # UNDEF /\ x # Str(<<>>)

\* the columns of a projection or a group-by: the elements of a list, the
\* comma-separated parts of a string without the blanks around them
Columns(x) ==
    IF IsArray(x) THEN x.v
    ELSE LET parts == split(x.v, ",")
         IN  [i \in 1..Len(parts) |-> Str(trim(parts[i]))]

CommaJoined(texts) == Str(join(texts, ","))

\* column.operator.value
Token(f) ==
    ToStr(f.v.column) \o <<".">> \o ToStr(f.v.operator) \o <<".">>
        \o ToStr(f.v.value)

\* ------------------------------------------------------------------------
\* C3: on the simple path get() sends exactly the documented parameters
\* ------------------------------------------------------------------------
\* C3: a get() that goes out as a GET is sent to /{table} and carries no
\* parameter other than select, filter, order, order_direction, limit and
\* offset; select is there exactly when a non-empty projection is set and is
\* its columns joined by commas; filter is there exactly when there is a
\* filter clause and is the tokens column.operator.value of the clauses, in
\* the order they were added, joined by commas; order and order_direction
\* are there exactly when an order column is set, order being that column
\* and order_direction the accumulated direction, 'asc' when there is none;
\* limit and offset are there exactly when set, with the accumulated value.
C3_SimpleParams ==
    (last.op = "get" /\ last.request.method = "GET") =>
        LET q == Query
            p == last.request.params
            fs == Clauses(q.filter)
        IN  /\ last.request.url = TableUrl
            /\ DOMAIN p \subseteq WireKeys
            /\ Has(p, "select") <=> NonEmpty(q.select)
            /\ Has(p, "select") =>
                  p.select = CommaJoined([i \in 1..Len(Columns(q.select)) |->
                                             Columns(q.select)[i].v])
            /\ Has(p, "filter") <=> Len(fs) >= 1
            /\ Has(p, "filter") =>
                  p.filter = CommaJoined([i \in 1..Len(fs) |-> Token(fs[i])])
            /\ Has(p, "order") <=> (IsString(q.order) /\ NonEmpty(q.order))
            /\ Has(p, "order_direction") <=> Has(p, "order")
            /\ Has(p, "order") =>
                  /\ p.order = q.order
                  /\ p.order_direction =
                        (IF q.orderDirection = UNDEF THEN Word("asc")
                         ELSE q.orderDirection)
            /\ Has(p, "limit") <=> q.limit # UNDEF
            /\ Has(p, "limit") => p.limit = q.limit
            /\ Has(p, "offset") <=> q.offset # UNDEF
            /\ Has(p, "offset") => p.offset = q.offset

\* select(['id','name']).filter('age','gte',18).order('created_at','desc')
\* .limit(10).get() has sent {select:'id,name', filter:'age.gte.18',
\* order:'created_at', order_direction:'desc', limit:10}
C3_Witness ==
    /\ last.op = "get"
    /\ last.additionalOptions = NoOverrides
    /\ last.before =
          [select |-> Arr(<<Word("id"), Word("name")>>),
           filter |-> Arr(<<Obj([column |-> Word("age"),
                                 operator |-> Word("gte"),
                                 value |-> Num(18),
                                 logical_op |-> Word("AND")])>>),
           group_by |-> UNDEF,
           having |-> UNDEF,
           order |-> Word("created_at"),
           orderDirection |-> Word("desc"),
           limit |-> Num(10),
           offset |-> UNDEF]
    /\ last.request =
          [method |-> "GET",
           url |-> <<"/", "users">>,
           params |-> [select |-> Str(<<"id", ",", "name">>),
                       filter |-> Str(<<"age", ".", "gte", ".", "18">>),
                       order |-> Word("created_at"),
                       order_direction |-> Word("desc"),
                       limit |-> Num(10)]]

\* ------------------------------------------------------------------------
\* C4: on the advanced path the POST body carries the query structurally
\* ------------------------------------------------------------------------
\* C4: a get() that goes out as a POST is sent to /{table}/query; its body
\* holds filters exactly when the query has a filter list, and then that
\* list, clause by clause in the order added, every clause with a logical_op
\* of 'AND' or 'OR'; having likewise; select and group_by exactly when set
\* to something non-empty, and then as the list of the columns (a list as
\* given, a comma-separated string split and trimmed), every element a
\* string; limit and offset exactly when set, with the accumulated value.
C4_AdvancedBody ==
    (last.op = "get" /\ last.request.method = "POST") =>
        LET q == Query
            b == last.request.data
        IN  /\ last.request.url = QueryUrl
            /\ DOMAIN b \subseteq BodyKeys
            /\ Has(b, "filters") <=> q.filter # UNDEF
            /\ Has(b, "filters") =>
                  /\ b.filters = Arr(Clauses(q.filter))
                  /\ \A i \in 1..Len(b.filters.v) :
                        b.filters.v[i].v.logical_op \in {Word("AND"), Word("OR")}
            /\ Has(b, "having") <=> q.having # UNDEF
            /\ Has(b, "having") => b.having = Arr(Clauses(q.having))
            /\ Has(b, "select") <=> NonEmpty(q.select)
            /\ Has(b, "select") =>
                  /\ b.select = Arr(Columns(q.select))
                  /\ \A i \in 1..Len(b.select.v) : IsString(b.select.v[i])
            /\ Has(b, "group_by") <=> NonEmpty(q.group_by)
            /\ Has(b, "group_by") =>
                  /\ b.group_by = Arr(Columns(q.group_by))
                  /\ \A i \in 1..Len(b.group_by.v) : IsString(b.group_by.v[i])
            /\ Has(b, "limit") <=> q.limit # UNDEF
            /\ Has(b, "limit") => b.limit = q.limit
            /\ Has(b, "offset") <=> q.offset # UNDEF
            /\ Has(b, "offset") => b.offset = q.offset

\* filter('category','in',['a','b']).groupBy('category')
\* .having('COUNT(*)','gt',5).get() has sent the body of the example
C4_Witness ==
    /\ last.op = "get"
    /\ last.additionalOptions = NoOverrides
    /\ last.before =
          [select |-> UNDEF,
           filter |-> Arr(<<Obj([column |-> Word("category"),
                                 operator |-> Word("in"),
                                 value |-> Arr(<<Word("a"), Word("b")>>),
                                 logical_op |-> Word("AND")])>>),
           group_by |-> Word("category"),
           having |-> Arr(<<Obj([column |-> Word("COUNT(*)"),
                                 operator |-> Word("gt"),
                                 value |-> Num(5)])>>),
           order |-> UNDEF,
           orderDirection |-> UNDEF,
           limit |-> UNDEF,
           offset |-> UNDEF]
    /\ last.request =
          [method |-> "POST",
           url |-> <<"/", "users", "/query">>,
           data |-> [filters |-> Arr(<<Obj([column |-> Word("category"),
                                            operator |-> Word("in"),
                                            value |-> Arr(<<Word("a"), Word("b")>>),
                                            logical_op |-> Word("AND")])>>),
                     group_by |-> Arr(<<Word("category")>>),
                     having |-> Arr(<<Obj([column |-> Word("COUNT(*)"),
                                           operator |-> Word("gt"),
                                           value |-> Num(5)])>>)]]

\* ------------------------------------------------------------------------
\* C5: no terminal call changes the accumulator
\* ------------------------------------------------------------------------
\* C5: after get(), get(overrides), execute() and first(), whether the
\* request succeeded or failed, every field of the accumulator is what it
\* was before the call.
C5_TerminalKeepsAccumulator == last.op # "none" => options = last.before

C7_FirstLimitOne ==
    last.op = "first" =>
        LET r == last.request
            g == Get(last.before, NoOverrides)
        IN  /\ r.method = g.method
            /\ r.url = g.url
            /\ Prop(Sent(r), "limit") = Num(1)
            /\ \A k \in (DOMAIN Sent(r) \cup DOMAIN Sent(g)) \ {"limit"} :
                  Prop(Sent(r), k) = Prop(Sent(g), k)

\* first() after limit(10), with a filter accumulated
C7_Witness ==
    /\ last.op = "first"
    /\ last.before.limit = Num(10)
    /\ last.before.filter # UNDEF
    /\ Prop(Sent(last.request), "limit") = Num(1)

\* ------------------------------------------------------------------------
\* C8: first() returns null on an empty result and throws only on failure
\* ------------------------------------------------------------------------
\* C8: first() returns null when the request succeeds with an empty data
\* list, returns the first element of data when the list is not empty, and
\* throws exactly when the request fails, the error being the transport's.
C8_FirstResult ==
    last.op = "first" =>
        LET resp == last.response
            out == last.outcome
        IN  /\ out.threw <=> ~resp.ok
            /\ ~resp.ok => out.error = resp.error
            /\ resp.ok =>
                  LET rows == resp.data.v.data.v
                  IN  /\ rows = <<>> => out.value = NULL
                      /\ rows # <<>> => out.value = rows[1]

\* first() on a zero-row envelope has returned null
C8_Witness ==
    /\ last.op = "first"
    /\ last.response.ok
    /\ last.response.data.v.data.v = <<>>
    /\ last.outcome = [threw |-> FALSE, value |-> NULL]

\* ------------------------------------------------------------------------
\* C9: the last order / orderBy call decides the order that is sent
\* ------------------------------------------------------------------------
\* C9: the order get() sends is the one given by the latest order / orderBy
\* call and nothing else: a single column with the direction of that call,
\* 'asc' when that call gave none; a list as given, with no direction.
C9_LastOrderCallWins ==
    (last.op = "get" /\ last.additionalOptions = NoOverrides /\ orderCall.called)
    => LET sent == Sent(last.request)
           key == IF last.request.method = "GET" THEN "order" ELSE "order_by"
       IN  IF IsString(orderCall.column)
           THEN /\ Prop(sent, key) = orderCall.column
                /\ Prop(sent, "order_direction") =
                      (IF orderCall.direction = UNDEF THEN Word("asc")
                       ELSE orderCall.direction)
           ELSE /\ last.request.method = "POST"
                /\ Prop(sent, "order_by") = orderCall.column
                /\ ~Has(sent, "order_direction")

\* ------------------------------------------------------------------------
\* C10: order_direction goes with a single-column order_by only
\* ------------------------------------------------------------------------
\* C10: in a POST body order_direction is present exactly when order_by is
\* a single column string; a list given to orderBy is sent as order_by as it
\* was given, with no order_direction, also when an earlier single-column
\* call had set a direction.
C10_OrderDirectionKey ==
    (last.op = "get" /\ last.request.method = "POST") =>
        LET b == last.request.data
        IN  /\ Has(b, "order_direction") <=>
                  (Has(b, "order_by") /\ IsString(b.order_by))
            /\ (orderCall.called /\ IsArray(orderCall.column)) =>
                  /\ Prop(b, "order_by") = orderCall.column
                  /\ ~Has(b, "order_direction")

\* a list order sent after order(column, 'desc') had set a direction
C10_Witness ==
    /\ last.op = "get"
    /\ last.request.method = "POST"
    /\ last.before.orderDirection = Word("desc")
    /\ orderCall.called /\ orderCall.column = OrderList
    /\ last.request.data.order_by = OrderList

\* ------------------------------------------------------------------------
\* C1: what forces the advanced POST path
\* ------------------------------------------------------------------------
ListOperators ==
    {Word("in"), Word("not_in"), Word("between"), Word("not_between")}

IsPost(r) == r.method = "POST" /\ r.url = QueryUrl /\ Has(r, "data")

IsSimpleGet(r) == r.method = "GET" /\ r.url = TableUrl /\ Has(r, "params")

UsesListOperator(q) ==
    \E i \in 1..Len(Clauses(q.filter)) :
        Clauses(q.filter)[i].v.operator \in ListOperators

\* C1 as stated: a filter clause with in, not_in, between or not_between,
\* or a group-by that is set, or a having clause, or an order in the list
\* form, makes get() a POST to /{table}/query with a JSON body.
C1_AdvancedWhenSet ==
    (last.op = "get"
     /\ \/ UsesListOperator(Query)
        \/ Query.group_by # UNDEF
        \/ Len(Clauses(Query.having)) >= 1
        \/ IsArray(Query.order))
    => IsPost(last.request)

\* C1 amended: the same, for a group-by that is a list or a non-empty
\* string (groupBy('') is dropped and forces nothing).
C1_AdvancedPath ==
    (last.op = "get"
     /\ \/ UsesListOperator(Query)
        \/ NonEmpty(Query.group_by)
        \/ Len(Clauses(Query.having)) >= 1
        \/ IsArray(Query.order))
    => IsPost(last.request)

\* a get() sent as a POST for no other reason than a not_between filter
C1_Witness ==
    /\ last.op = "get"
    /\ UsesListOperator(Query)
    /\ Clauses(Query.filter)[1].v.operator = Word("not_between")
    /\ Query.group_by = UNDEF /\ Query.having = UNDEF /\ Query.order = UNDEF
    /\ IsPost(last.request)

\* ------------------------------------------------------------------------
\* C2: what stays on the simple GET path
\* ------------------------------------------------------------------------
SimpleOperators ==
    {Word("eq"), Word("neq"), Word("gt"), Word("gte"), Word("lt"),
     Word("lte"), Word("like"), Word("is"), Word("is_not")}

OnlySimpleOperators(q) ==
    \A i \in 1..Len(Clauses(q.filter)) :
        Clauses(q.filter)[i].v.operator \in SimpleOperators

OnlyScalarValues(q) ==
    \A i \in 1..Len(Clauses(q.filter)) :
        ~IsArray(Clauses(q.filter)[i].v.value)

\* C2 as stated: filters with the simple operators only, whatever their
\* values and logical operators, at most a single-column order, no groupBy
\* and no having: get() is a GET to /{table} with query parameters.
C2_SimpleWhateverValues ==
    (last.op = "get"
     /\ OnlySimpleOperators(Query)
     /\ ~IsArray(Query.order)
     /\ Query.group_by = UNDEF
     /\ Query.having = UNDEF)
    => IsSimpleGet(last.request)

\* C2 amended: the same, for filters none of whose values is a list.
C2_SimplePath ==
    (last.op = "get"
     /\ OnlySimpleOperators(Query)
     /\ OnlyScalarValues(Query)
     /\ ~IsArray(Query.order)
     /\ Query.group_by = UNDEF
     /\ Query.having = UNDEF)
    => IsSimpleGet(last.request)

\* a get() sent as a GET with an OR filter and a single-column order
C2_Witness ==
    /\ last.op = "get"
    /\ Len(Clauses(Query.filter)) >= 1
    /\ OnlySimpleOperators(Query)
    /\ Clauses(Query.filter)[1].v.logical_op = Word("OR")
    /\ IsString(Query.order)
    /\ IsSimpleGet(last.request)

\* ------------------------------------------------------------------------
\* C11: filter and having append, the other chain methods overwrite
\* ------------------------------------------------------------------------
\* the operator a filter method stands for
OperatorOf(op) ==
    CASE op = "isNull" -> "is"
      [] op = "isNotNull" -> "is_not"
      [] op = "notIn" -> "not_in"
      [] op = "notBetween" -> "not_between"
      [] OTHER -> op

\* the arguments <<column, operator, value, logical_op>> of the filter call
\* a logged filter-method call is documented to stand for
EquivalentFilter(call) ==
    LET a == call.args
    IN  CASE call.op = "filter" ->
                 <<a[1], a[2], a[3], IF a[4] = UNDEF THEN Word("AND") ELSE a[4]>>
          [] call.op \in {"isNull", "isNotNull"} ->
                 <<a[1], Word(OperatorOf(call.op)), NULL, Word("AND")>>
          [] call.op \in {"between", "notBetween"} ->
                 <<a[1], Word(OperatorOf(call.op)), Arr(<<a[2], a[3]>>),
                   Word("AND")>>
          [] call.op = "or" -> <<a[1], a[2], a[3], Word("OR")>>
          [] OTHER -> <<a[1], Word(OperatorOf(call.op)), a[2], Word("AND")>>

\* the clause a logged filter-method call passes
ClauseOf(call) ==
    LET e == EquivalentFilter(call)
    IN  Obj([column |-> e[1], operator |-> e[2], value |-> e[3],
             logical_op |-> e[4]])

\* the clause a logged having call passes
HavingClauseOf(call) ==
    Obj([column |-> call.args[1], operator |-> call.args[2],
         value |-> call.args[3]])

\* the value an overwriting method leaves in its field: its argument (the
\* list of its arguments when select is given several)
Overwritten(entry) ==
    IF entry = Never THEN UNDEF
    ELSE IF entry.op = "select" /\ Len(entry.args) # 1 THEN Arr(entry.args)
    ELSE entry.args[1]

\* the fields of the accumulator that belong to a chain method
OwnFields(op) ==
    CASE op = "select" -> {"select"}
      [] op = "groupBy" -> {"group_by"}
      [] op = "having" -> {"having"}
      [] op \in {"order", "orderBy"} -> {"order", "orderDirection"}
      [] op = "limit" -> {"limit"}
      [] op = "offset" -> {"offset"}
      [] OTHER -> {"filter"}

\* C11: after any sequence of chain calls the filter list is the clauses
\* passed to filter, in call order, and the having list the clauses passed
\* to having, in call order; the projection, the group-by, the limit and
\* the offset are the argument of the latest select, groupBy, limit and
\* offset call (unset when there was none); and the latest chain call left
\* every field that is not its own as it found it.
C11_ChainAccumulates ==
    chainLog.on =>
        /\ Clauses(options.filter) =
               [i \in 1..Len(chainLog.filter) |-> ClauseOf(chainLog.filter[i])]
        /\ Clauses(options.having) =
               [i \in 1..Len(chainLog.having) |->
                   HavingClauseOf(chainLog.having[i])]
        /\ options.select = Overwritten(chainLog.select)
        /\ options.group_by = Overwritten(chainLog.group_by)
        /\ options.limit = Overwritten(chainLog.limit)
        /\ options.offset = Overwritten(chainLog.offset)
        /\ chainLog.op # "none" =>
               \A k \in Keys \ OwnFields(chainLog.op) :
                   options[k] = chainLog.before[k]

\* a second select that replaced the projection of the first, on an
\* accumulator holding two different filter clauses and a having clause
C11_Witness ==
    /\ chainLog.on
    /\ chainLog.op = "select"
    /\ chainLog.before.select = Str(<<"id", ",", " ", "name">>)
    /\ options.select = Arr(<<Word("id"), Word("name")>>)
    /\ Len(chainLog.filter) = 2
    /\ chainLog.filter[1] # chainLog.filter[2]
    /\ Len(chainLog.having) = 1
    /\ Len(Clauses(options.filter)) = 2
    /\ Len(Clauses(options.having)) = 1

\* ------------------------------------------------------------------------
\* C12: a clause added with 'OR'
\* ------------------------------------------------------------------------
HasOrClause(q) ==
    \E i \in 1..Len(Clauses(q.filter)) :
        Clauses(q.filter)[i].v.logical_op = Word("OR")

\* C12: when a filter clause was added with logical operator OR, get()
\* sends the query as a POST to /{table}/query whose filters are the
\* clauses with their logical operators.
C12_OrForcesPost ==
    (last.op = "get" /\ HasOrClause(Query)) =>
        /\ IsPost(last.request)
        /\ Prop(last.request.data, "filters") = Arr(Clauses(Query.filter))

\* ------------------------------------------------------------------------
\* C13: a list value re-routes to the advanced path
\* ------------------------------------------------------------------------
HasListValue(q) ==
    \E i \in 1..Len(Clauses(q.filter)) : IsArray(Clauses(q.filter)[i].v.value)

\* C13: when the value of some filter clause is a list, whatever the
\* operators and whether or not a group-by, a having clause or a list order
\* is present, the request of get / execute / first is a POST to
\* /{table}/query, it is not a GET carrying a flattened filter string, and
\* its body holds every filter clause as it was added, list values included,
\* next to the projection and the limit of the query.
C13_ListValueReRoutes ==
    (last.op \in {"get", "execute", "first"} /\ HasListValue(Query)) =>
        /\ IsPost(last.request)
        /\ ~Has(last.request, "params")
        /\ Prop(last.request.data, "filters") = Arr(Clauses(Query.filter))
        /\ Has(last.request.data, "limit") <=>
               (Query.limit # UNDEF \/ last.op = "first")
        /\ Has(last.request.data, "select") <=> Truthy(Query.select)

\* a get() sent as a POST only because an eq filter compares with a list,
\* next to a scalar filter
C13_Witness ==
    /\ last.op = "get"
    /\ Len(Clauses(Query.filter)) = 2
    /\ ~UsesListOperator(Query)
    /\ HasListValue(Query)
    /\ ~IsArray(Clauses(Query.filter)[1].v.value)
    /\ Query.group_by = UNDEF /\ Query.having = UNDEF /\ ~IsArray(Query.order)
    /\ IsPost(last.request)
    /\ last.request.data.filters = Query.filter

\* ------------------------------------------------------------------------
\* C14: a failed request surfaces as the transport's WOWSQLError
\* ------------------------------------------------------------------------
CoreMethods ==
    {"get", "execute", "first", "getById", "create", "insert", "update",
     "delete", "listTables", "getTableSchema", "query", "health"}

\* the call threw a WOWSQLError
ThrewWOWSQLError(c) ==
    /\ c.outcome.threw
    /\ c.outcome.error.name = "WOWSQLError"

\* C14 as stated: every failed request of a core method surfaces as a
\* WOWSQLError that carries the HTTP status code of the response and the
\* raw error body of the server.
C14_ErrorCarriesStatus ==
    (last.op \in CoreMethods /\ ~last.response.ok) =>
        /\ ThrewWOWSQLError(last)
        /\ last.outcome.error.statusCode.t = "number"
        /\ last.response.cause.response # UNDEF
        /\ last.outcome.error.statusCode = last.response.cause.response.v.status
        /\ last.outcome.error.response = last.response.cause.response.v.data

\* C14 amended: every failed request of a core method surfaces as a
\* WOWSQLError, the one the transport made, unchanged; when the server
\* answered it carries the status code and the raw body of the answer, when
\* there was no answer it carries the message only.
C14_ErrorSurfaces ==
    (last.op \in CoreMethods /\ ~last.response.ok) =>
        /\ ThrewWOWSQLError(last)
        /\ last.outcome.error = last.response.error
        /\ IF last.response.cause.response # UNDEF
           THEN /\ last.outcome.error.statusCode =
                      last.response.cause.response.v.status
                /\ last.outcome.error.response =
                      last.response.cause.response.v.data
           ELSE /\ last.outcome.error.statusCode = UNDEF
                /\ last.outcome.error.response = UNDEF
                /\ last.outcome.error.message = last.response.cause.message

\* a Table.update that was answered 429: the caller sees statusCode 429 and
\* the body { detail: 'Too Many Requests' }
C14_Witness ==
    /\ last.op = "update"
    /\ last.response = Failed(RateLimited)
    /\ last.outcome.threw
    /\ last.outcome.error.statusCode = Num(429)
    /\ last.outcome.error.response = Obj([detail |-> Word("Too Many Requests")])
    /\ last.outcome.error.message = Word("Too Many Requests")

ExpressionToken(e) ==
    ToStr(e.v.column) \o <<".">> \o ToStr(e.v.operator) \o <<".">>
        \o ToStr(e.v.value)

\* C16: filter(expression) with a FilterExpression object { column,
\* operator, value } adds one clause with that column, that operator and
\* that value; and a get() on an accumulator built by such calls alone sends
\* filter = the tokens column.operator.value of the objects.
C16_FilterExpression ==
    chainLog.on =>
        /\ chainLog.op = "filterExpression" =>
               LET e == chainLog.args[1]
                   clauses == Clauses(options.filter)
                   added == clauses[Len(clauses)]
               IN  /\ Len(clauses) = Len(Clauses(chainLog.before.filter)) + 1
                   /\ added.v.column = e.v.column
                   /\ added.v.operator = e.v.operator
                   /\ added.v.value = e.v.value
        /\ (/\ last.op = "get"
            /\ Len(chainLog.filter) >= 1
            /\ \A i \in 1..Len(chainLog.filter) :
                   chainLog.filter[i].op = "filterExpression") =>
               /\ IsSimpleGet(last.request)
               /\ Prop(last.request.params, "filter") =
                      CommaJoined([i \in 1..Len(chainLog.filter) |->
                          ExpressionToken(chainLog.filter[i].args[1])])

\* ------------------------------------------------------------------------
\* C17: get(overrides) layers the overrides on and stores nothing
\* ------------------------------------------------------------------------
\* the accumulator with every field present in the overrides replaced
Layered(o, ov) == [k \in Keys |-> IF k \in DOMAIN ov THEN ov[k] ELSE o[k]]

\* C17: the request of get(overrides) is the one a get() would issue on an
\* accumulator holding the override value for every field the overrides
\* give and the accumulator's own value for every other field; it is a POST
\* when that merged query has a group-by, a having clause, a list order, a
\* list operator or a list value; and after the call the accumulator is
\* what it was, so that a get() made now issues the request it would have
\* issued before.
C17_OverridesLayered ==
    last.op = "get" =>
        LET merged == Layered(last.before, last.additionalOptions)
        IN  /\ last.request = Get(merged, NoOverrides)
            /\ (\/ NonEmpty(merged.group_by)
                \/ Len(Clauses(merged.having)) >= 1
                \/ IsArray(merged.order)
                \/ UsesListOperator(merged)
                \/ HasListValue(merged)) => IsPost(last.request)
            /\ options = last.before
            /\ Get(options, NoOverrides) = Get(last.before, NoOverrides)

\* a get({ filter: <age eq [1,2]> }) on an accumulator that holds one scalar
\* filter and limit 10: a POST whose filters are the override alone and
\* whose limit is the accumulator's, the accumulator being left as it was
C17_Witness ==
    /\ last.op = "get"
    /\ DOMAIN last.additionalOptions = {"filter"}
    /\ Len(Clauses(last.before.filter)) = 1
    /\ ~HasListValue(last.before)
    /\ last.before.limit = Num(10)
    /\ IsSimpleGet(Get(last.before, NoOverrides))
    /\ IsPost(last.request)
    /\ last.request.data.filters = Arr(<<last.additionalOptions.filter>>)
    /\ last.request.data.limit = Num(10)
    /\ options = last.before

\* ------------------------------------------------------------------------
\* C18: the convenience methods are filter calls
\* ------------------------------------------------------------------------
ConvenienceMethods ==
    {"eq", "neq", "gt", "gte", "lt", "lte", "like", "isNull", "isNotNull",
     "in", "notIn", "between", "notBetween", "or"}

\* C18: a convenience method leaves the accumulator as the filter call it
\* stands for would: eq .. like(c, v) as filter(c, op, v, 'AND'), isNull(c)
\* and isNotNull(c) as filter(c, 'is' / 'is_not', null), in / notIn(c, vs)
\* as filter(c, 'in' / 'not_in', vs), between / notBetween(c, min, max) as
\* a clause with the value [min, max], or(c, op, v) as filter(c, op, v,
\* 'OR'); the filter list grows by that one clause and nothing else changes.
C18_ConvenienceAsFilter ==
    (chainLog.on /\ chainLog.op \in ConvenienceMethods) =>
        LET e == EquivalentFilter(ChainCall(chainLog.op, chainLog.args))
            before == chainLog.before
        IN  /\ options = Filter(before, e[1], e[2], e[3], e[4])
            /\ Clauses(options.filter) =
                   Append(Clauses(before.filter),
                          Obj([column |-> e[1], operator |-> e[2],
                               value |-> e[3], logical_op |-> e[4]]))
            /\ \A k \in Keys \ {"filter"} : options[k] = before[k]

\* a between('price', 10, 100) made after another clause: the clause added
\* is { price, between, [10, 100], AND }
C18_Witness ==
    /\ chainLog.on
    /\ chainLog.op = "between"
    /\ Len(Clauses(chainLog.before.filter)) = 1
    /\ Clauses(options.filter)[2] =
           Obj([column |-> Word("price"), operator |-> Word("between"),
                value |-> Arr(<<Num(10), Num(100)>>),
                logical_op |-> Word("AND")])

\* the latest storage call is the named method
StorageCalled(op) == storageCall # NoCall /\ storageCall.op = op

\* the latest storage call issued exactly the quota request
OnlyQuotaRequested == storageCall.requests = <<QuotaRequest>>

\* C19: getQuota with forceRefresh omitted or false and a snapshot cached
\* issues no request, returns the cached snapshot and keeps it; getQuota with
\* no snapshot cached, and getQuota(true) always, issues exactly the quota
\* request; when the request succeeds the response is returned and becomes
\* the cached snapshot, and when it fails the call throws and the cached
\* snapshot stays as it was
C19_QuotaCache ==
    StorageCalled("getQuota") =>
        LET forced == storageCall.args[1] = Bool(TRUE)
            cached == storageCall.before.quotaCache
        IN  IF ~forced /\ cached # UNDEF
            THEN /\ storageCall.requests = <<>>
                 /\ storageCall.outcome = Returned(cached)
                 /\ storage.quotaCache = cached
            ELSE /\ OnlyQuotaRequested
                 /\ LET answer == storageCall.answers[1]
                    IN  IF answer.ok
                        THEN /\ storage.quotaCache = answer.data
                             /\ storageCall.outcome = Returned(answer.data)
                        ELSE /\ storage.quotaCache = cached
                             /\ storageCall.outcome.threw

\* C19 witness: getQuota(true) on a client that has a snapshot cached got a
\* different quota from the server, which is now the cached snapshot
C19_Witness ==
    /\ StorageCalled("getQuota")
    /\ storageCall.args[1] = Bool(TRUE)
    /\ storageCall.before.quotaCache = Quota(1)
    /\ OnlyQuotaRequested
    /\ storage.quotaCache = Quota(0)

\* uploadFile is to check the quota: options.checkQuota is true, or it is
\* not given and the client was not created with autoCheckQuota false
IsToCheck(config, options_) ==
    \/ Field(options_, "checkQuota") = Bool(TRUE)
    \/ /\ Field(options_, "checkQuota") = UNDEF
       /\ Field(config, "autoCheckQuota") # Bool(FALSE)

\* C20: when uploadFile is to check the quota, its first request is the quota
\* request, even when a snapshot is cached; if that request is answered with
\* a quota and the file is larger than the available storage, the call
\* throws StorageLimitExceededError with status code 413 and issues no other
\* request; if the file is not larger (exactly as large included), the
\* upload request follows; when uploadFile is not to check, the upload
\* request is the only request
C20_UploadQuotaCheck ==
    StorageCalled("uploadFile") =>
        LET fileSize == storageCall.args[1]
            upload == UploadRequest(fileSize, storageCall.args[2],
                                    storageCall.args[3])
        IN  IF IsToCheck(storageCall.before.config, storageCall.args[3])
            THEN /\ Len(storageCall.requests) >= 1
                 /\ storageCall.requests[1] = QuotaRequest
                 /\ storageCall.answers[1].ok =>
                        LET available ==
                                Field(storageCall.answers[1].data,
                                      "storage_available_gb").v * GiB
                        IN  IF fileSize > available
                            THEN /\ OnlyQuotaRequested
                                 /\ storageCall.outcome.threw
                                 /\ storageCall.outcome.error.name =
                                        "StorageLimitExceededError"
                                 /\ storageCall.outcome.error.statusCode =
                                        Num(413)
                            ELSE storageCall.requests =
                                     <<QuotaRequest, upload>>
            ELSE storageCall.requests = <<upload>>

\* C20 witness: a file of exactly the available 1 GB was uploaded after the
\* quota check of a client with the default configuration, which had a
\* snapshot cached
C20_Witness ==
    /\ StorageCalled("uploadFile")
    /\ storageCall.args[1] = GiB
    /\ storageCall.args[3] = UNDEF
    /\ Field(storageCall.before.config, "autoCheckQuota") = UNDEF
    /\ storageCall.before.quotaCache # UNDEF
    /\ storageCall.answers[1] = Resolved(Quota(1))
    /\ Len(storageCall.requests) = 2
    /\ ~storageCall.outcome.threw

\* the call c is an uploadFile or a deleteFile that returned
StoredOrDeleted(c) == c.op \in {"uploadFile", "deleteFile"} /\ ~c.threw

\* C21: when uploadFile or deleteFile has returned, no quota snapshot is
\* cached; and a getQuota call that comes next, whatever its forceRefresh,
\* issues the quota request and returns (or throws) what that request was
\* answered with, not the snapshot cached before the upload or deletion
C21_QuotaRefreshed ==
    /\ (storageCall # NoCall /\ StoredOrDeleted([op |-> storageCall.op,
                                    threw |-> storageCall.outcome.threw]))
           => storage.quotaCache = UNDEF
    /\ (StorageCalled("getQuota") /\ StoredOrDeleted(storageCall.after))
           => /\ OnlyQuotaRequested
              /\ storageCall.outcome = GetResult(storageCall.answers[1])

\* C21 witness: getQuota() without forceRefresh, called right after a
\* successful deleteFile, fetched the quota from the server
C21_Witness ==
    /\ StorageCalled("getQuota")
    /\ storageCall.args[1] = UNDEF
    /\ storageCall.after = [op |-> "deleteFile", threw |-> FALSE]
    /\ OnlyQuotaRequested
    /\ storageCall.outcome = Returned(Quota(1))

\* ------------------------------------------------------------------------
\* C22: setSession, clearSession and getSession with the default storage
\* ------------------------------------------------------------------------
\* the client was created without config.storage
DefaultTokenStorage == Field(auth.config, "storage") = UNDEF

Tokens(accessToken, refreshToken) ==
    Obj([accessToken |-> accessToken, refreshToken |-> refreshToken])

\* C22: with the default in-memory token storage, right after
\* setSession({accessToken: a, refreshToken: r}) getSession() gives
\* {accessToken: a, refreshToken: r}, r being null when it was omitted;
\* right after clearSession() it gives {accessToken: null, refreshToken:
\* null}; and a getSession() call returns that value, leaves the client as
\* it was and issues no request
C22_SessionRoundTrip ==
    DefaultTokenStorage =>
        /\ authCall.op = "setSession" =>
               GetSession(auth) =
                   Tokens(Field(authCall.args[1], "accessToken"),
                          IF Field(authCall.args[1], "refreshToken") = UNDEF
                          THEN NULL
                          ELSE Field(authCall.args[1], "refreshToken"))
        /\ authCall.op = "clearSession" =>
               GetSession(auth) = Tokens(NULL, NULL)
        /\ authCall.op = "getSession" =>
               /\ auth = authCall.before
               /\ authCall.requests = <<>>
               /\ authCall.outcome = Returned(GetSession(authCall.before))

\* C22 witness: setSession without a refresh token on a client that held the
\* refresh token of a sign-in; the session now reads with refreshToken null
C22_Witness ==
    /\ DefaultTokenStorage
    /\ authCall.op = "setSession"
    /\ Field(authCall.args[1], "refreshToken") = UNDEF
    /\ authCall.before.refreshToken = Str(<<"refresh", "1">>)
    /\ GetSession(auth) = Tokens(Word("set-access2"), NULL)

\* ------------------------------------------------------------------------
\* C23: the session is stored on success only
\* ------------------------------------------------------------------------
SessionMethods == {"signUp", "signIn", "exchangeOAuthCallback"}

ReadOnlyMethods ==
    {"getUser", "getOAuthAuthorizationUrl", "forgotPassword", "resetPassword"}

\* C23: when signUp, signIn or exchangeOAuthCallback ends after a successful
\* request, the client's accessToken and refreshToken and the two tokens in
\* its token storage are the access_token and refresh_token of the response,
\* and the returned session holds the same two; when it ends after a failed
\* request it throws a WOWSQLError and the client, its token storage
\* included, is as it was before; getUser, getOAuthAuthorizationUrl,
\* forgotPassword and resetPassword leave the client as it was, however
\* they end
C23_SessionOnSuccessOnly ==
    /\ authCall.op \in SessionMethods =>
           LET answer == authCall.answers[1]
           IN  IF answer.ok
               THEN LET a == Field(answer.data, "access_token")
                        r == Field(answer.data, "refresh_token")
                    IN  /\ auth.accessToken = a
                        /\ auth.refreshToken = r
                        /\ auth.storage = [accessToken |-> a,
                                           refreshToken |-> r]
                        /\ ~authCall.outcome.threw
                        /\ LET session == Field(authCall.outcome.value,
                                                "session")
                           IN  /\ Field(session, "accessToken") = a
                               /\ Field(session, "refreshToken") = r
               ELSE /\ authCall.outcome.threw
                    /\ authCall.outcome.error.name = "WOWSQLError"
                    /\ auth = authCall.before
    /\ authCall.op \in ReadOnlyMethods => auth = authCall.before

\* C23 witness: a signIn succeeded on a client that held the tokens of an
\* earlier sign-up, and the client now holds the tokens of the new response
C23_Witness ==
    /\ authCall.op = "signIn"
    /\ authCall.answers[1].ok
    /\ authCall.before.accessToken = Str(<<"access", "1">>)
    /\ auth.accessToken = Str(<<"access", "2">>)
    /\ auth.storage.refreshToken = Str(<<"refresh", "2">>)

\* ------------------------------------------------------------------------
\* C24: the token getUser sends
\* ------------------------------------------------------------------------
\* the token getUser is to use when called with accessToken on the client
\* described by atStart: the argument (an empty string counts as none), else
\* the token signed in with, else the token in the token storage
TokenInOrder(accessToken, atStart) ==
    IF Truthy(accessToken) THEN accessToken
    ELSE IF Truthy(atStart.signedIn) THEN atStart.signedIn
    ELSE atStart.auth.storage.accessToken

\* the getUser call c sent its request with the token in order
SentTokenInOrder(c) ==
    LET token == TokenInOrder(c.args[1], c.atStart)
    IN  /\ Truthy(token)
        /\ c.request.method = "GET"
        /\ c.request.url = <<"/me">>
        /\ c.request.headers.Authorization = <<"Bearer ">> \o token.v

\* C24: a getUser call that awaits its request has sent it with the token
\* chosen in the order argument, signed-in token, token of the storage, and
\* one of the three was there; a getUser call that ended without a request
\* had none of the three and threw a WOWSQLError
C24_GetUserToken ==
    /\ \A c \in BagToSet(authInFlight.calls) :
           c.op = "getUser" => SentTokenInOrder(c)
    /\ authCall.op = "getUser" =>
           IF authCall.requests = <<>>
           THEN /\ ~Truthy(TokenInOrder(authCall.args[1], authCall.atStart))
                /\ authCall.outcome.threw
                /\ authCall.outcome.error.name = "WOWSQLError"
           ELSE /\ Len(authCall.requests) = 1
                /\ SentTokenInOrder([args |-> authCall.args,
                                     atStart |-> authCall.atStart,
                                     request |-> authCall.requests[1]])

\* C24 witness: getUser('given-access') on a client that was signed in sent
\* the given token, not the one signed in with
C24_Witness ==
    /\ authCall.op = "getUser"
    /\ authCall.args[1] = Word("given-access")
    /\ authCall.atStart.signedIn = Str(<<"access", "2">>)
    /\ authCall.atStart.auth.accessToken = Str(<<"access", "2">>)
    /\ authCall.requests[1].headers.Authorization =
           <<"Bearer ", "given-access">>

\* a getUser() on a client whose session was cleared threw without a request
C24_ClearedWitness ==
    /\ authCall.op = "getUser"
    /\ authCall.atStart.signedIn = NULL
    /\ authCall.requests = <<>>
    /\ authCall.outcome.threw

\* ------------------------------------------------------------------------
\* C28: the tokens under interleaved session calls
\* ------------------------------------------------------------------------
\* the (access token, refresh token) pairs that one server response or one
\* setSession call gives, and the cleared pair
TokenPairs ==
    { <<Field(resp.data, "access_token"), Field(resp.data, "refresh_token")>> :
          resp \in { r \in AuthResponses("signIn") : r.ok } }
    \cup
    { <<Field(session, "accessToken"),
        IF Field(session, "refreshToken") = UNDEF THEN NULL
        ELSE Field(session, "refreshToken")>> : session \in SetSessionArgs }
    \cup
    { <<NULL, NULL>> }

\* C28: between the synchronous steps of interleaved signUp, signIn,
\* exchangeOAuthCallback, setSession and clearSession calls on a client with
\* the default token storage, the client's accessToken and refreshToken
\* equal the two tokens in its token storage, and the two come from one
\* server response or one setSession call, or both are null
C28_TokensConsistent ==
    /\ auth.accessToken = auth.storage.accessToken
    /\ auth.refreshToken = auth.storage.refreshToken
    /\ <<auth.accessToken, auth.refreshToken>> \in TokenPairs

\* C28 witness: a sign-in that was called before another session call
\* finished, and was answered after it, ended successfully while a third
\* call is still suspended
C28_Witness ==
    /\ authCall.op = "signIn"
    /\ authCall.answers[1].ok
    /\ authCall.atStart.auth # authCall.before
    /\ authCall.before.accessToken # NULL
    /\ \E c \in BagToSet(authInFlight.calls) : c.op = "signUp"
    /\ auth.accessToken = Field(authCall.answers[1].data, "access_token")

\* ------------------------------------------------------------------------
\* C25: the schema operations by response status
\* ------------------------------------------------------------------------
SchemaOperations == {"createTable", "alterTable", "dropTable", "executeSQL"}

\* the message says that a SERVICE ROLE key is required
SaysServiceRoleRequired(message) ==
    message # <<>> /\ message[1] \in
        {"Schema operations require a SERVICE ROLE key. ",
         "Schema operations require a SERVICE ROLE key."}

\* the message is 'Failed to <operation>: ' followed by the rest
SaysFailedTo(op, message, rest) ==
    message = <<CASE op = "createTable" -> "Failed to create table: "
                  [] op = "alterTable" -> "Failed to alter table: "
                  [] op = "dropTable" -> "Failed to drop table: "
                  [] op = "executeSQL" -> "Failed to execute SQL: ">> \o rest

\* the detail of the body of a response (undefined when the body is not
\* JSON or holds none)
DetailOf(r) == IF r.body.json THEN Field(r.body.value, "detail") ELSE UNDEF

\* C25: each schema operation issues exactly one request; a 403 response
\* raises the SERVICE ROLE error whatever its body; any other response
\* outside 200..299 raises an error 'Failed to ...' that carries the detail
\* of the body when it has one (the status text otherwise); a 2xx response
\* returns the decoded body
C25_SchemaByStatus ==
    schemaCall.op \in SchemaOperations =>
        /\ Len(schemaCall.requests) = 1
        /\ schemaCall.response.received =>
               LET r == schemaCall.response
               IN  IF r.status = 403
                   THEN /\ schemaCall.outcome.threw
                        /\ SaysServiceRoleRequired(
                               schemaCall.outcome.error.message)
                   ELSE IF ~r.ok
                   THEN /\ schemaCall.outcome.threw
                        /\ SaysFailedTo(schemaCall.op,
                                        schemaCall.outcome.error.message,
                                        IF Truthy(DetailOf(r))
                                        THEN ToStr(DetailOf(r))
                                        ELSE r.statusText)
                   ELSE r.body.json =>
                            schemaCall.outcome = Returned(r.body.value)

\* ------------------------------------------------------------------------
\* C26: no stale quota snapshot after an upload or a deletion has returned
\* ------------------------------------------------------------------------
\* C26: under interleaved getQuota, checkUploadAllowed, uploadFile and
\* deleteFile calls, a cached quota snapshot is never older than the latest
\* upload or deletion whose call has returned successfully, and getQuota
\* without forceRefresh never returns a snapshot older than that
C26_NoStaleQuota ==
    /\ storage.quotaCache # UNDEF => net.cacheVersion >= net.returned
    /\ (/\ StorageCalled("getQuota")
        /\ storageCall.args[1] # Bool(TRUE)
        /\ ~storageCall.outcome.threw)
           => storageCall.version >= net.returned

\* ------------------------------------------------------------------------
\* C27: concurrent checked uploads and the available storage
\* ------------------------------------------------------------------------
\* C27: where every uploadFile checks the quota and nothing is deleted, the
\* files for which an upload request is issued (one gigabyte each) never
\* add up to more than the storage available at the start
C27_UploadsWithinQuota ==
    (net.deletes = 0 /\ net.unchecked = 0) => net.uploads <= net.initially

\* ------------------------------------------------------------------------
\* C30: limit and offset are forwarded whenever they were set
\* ------------------------------------------------------------------------
\* what the request carries under the key k (undefined: no such key)
Carried(request, k) ==
    IF request.method = "POST" THEN Prop(request.data, k)
    ELSE Prop(request.params, k)

\* the value the key k was set to when get(ov) was called: the override's,
\* else the argument of the latest limit / offset call (undefined: neither)
SetTo(k, ov) ==
    IF k \in DOMAIN ov THEN ov[k]
    ELSE IF chainLog[k] # Never THEN chainLog[k].args[1]
    ELSE UNDEF

C30_PostWitness ==
    /\ chainLog.on
    /\ last.op = "get"
    /\ last.request.method = "POST"
    /\ last.additionalOptions = [limit |-> Num(0 - 2), offset |-> Num(0)]
    /\ chainLog.limit # Never
    /\ last.request.data.offset = Num(0)
    /\ last.request.data.limit = Num(0 - 2)

\* ------------------------------------------------------------------------
\* C29: the filter parameter determines the filter list
\* ------------------------------------------------------------------------
\* the filter clauses of an accumulator
ClausesOf(o) == IF IsArray(o.filter) THEN o.filter.v ELSE <<>>

\* two clause lists differ in length, or in the column, the operator or the
\* value of some clause
ClausesDiffer(fs, gs) ==
    \/ Len(fs) # Len(gs)
    \/ \E i \in 1..Len(fs) :
          \E k \in {"column", "operator", "value"} :
              Field(fs[i], k) # Field(gs[i], k)

\* C29: two get() calls that go out as GET from accumulators whose filter
\* lists differ never carry the same filter parameter
C29_FilterParamInjective ==
    (/\ prev.op = "get" /\ last.op = "get"
     /\ prev.request.method = "GET" /\ last.request.method = "GET"
     /\ ClausesDiffer(ClausesOf(prev.before), ClausesOf(last.before)))
        => Prop(prev.request.params, "filter")
               # Prop(last.request.params, "filter")

====
